---- MODULE Spec2Model ----
(***************************************************************************)
(* A model of the dispatch core of passl: the order lifecycle queue        *)
(* (orders/queue.py), the batching engine it calls (orders/batching) and   *)
(* the five-wave dispatcher (dispatch/dispatcher.py).                      *)
(*                                                                         *)
(* Times are integer ticks of one wall clock.  The lock manager and the    *)
(* push service are collaborators the dispatcher is constructed with; the  *)
(* model keeps the lock manager's three tables (lock, acceptance, active   *)
(* offer) and the list of calls made on the push service.                  *)
(***************************************************************************)
EXTENDS Integers, Sequences, FiniteSets, TLC

VARIABLES
    catalog,              \* id -> the attributes an Order is built with
    policy,               \* the BatchingPolicy the RollingHorizonManager holds
    clock,                \* wall clock (datetime.utcnow / time.sleep)
    \* ---- OrdersQueue (orders/queue.py:53-62)
    orders,               \* _orders: id -> status of the Order object, "ABSENT" if no key
    raw_ids,              \* _raw_ids
    batching_ids,         \* _batching_ids
    ready_jobs,           \* _ready_jobs
    entered_raw_at,       \* _entered_raw_at: id -> time, NoTime if no key
    entered_batching_at,  \* _entered_batching_at
    \* ---- history of the calls made on the queue
    committed,            \* id -> times a job holding it was passed to finalize_orders_as_ready_jobs
    lastOp,               \* the last call made on the queue
    \* ---- Dispatcher.dispatch_job_async_loop (dispatch/dispatcher.py:25-72)
    waves,                \* the five waves build_driver_waves returned
    loopPc,               \* position of the loop
    waveIdx,              \* wave_index + 1 of the current iteration, 0 before the first
    sleepUntil,           \* earliest clock value at which time.sleep returns
    exhausted,            \* the "All 5 waves exhausted" line was printed
    \* ---- lock manager tables for the dispatched job
    lockHolder,           \* resolve call holding lock("job_<id>"), 0 if free
    accepted,             \* driver recorded by mark_job_accepted, NoDriver if none
    activeOffer,          \* last set_active_offer: [drivers, expires_at]
    \* ---- resolve_driver_acceptance calls (dispatch/dispatcher.py:74-98)
    rpc, rdrv, rseen, rret,
    \* ---- calls made on the push service, in order
    pushLog,
    \* ---- a call of move_raw_to_batching in progress on the batching tick's thread
    tickPc,               \* the statement the call is at
    tickSnapshot,         \* raw_snapshot (queue.py:138)
    tickAt,               \* position of the for loop in raw_snapshot
    \* ---- one call of batch_orders (orders/batching/engine.py:56)
    batchPool,            \* orders: the ids of the pool, in the order given
    batchAges,            \* order_age_seconds
    batchNear,            \* a pickup_time_matrix_provider is passed
    batchResult,          \* the BatchResult returned, NoResult before the call
    \* ---- one call of build_driver_waves (drivers/selection.py:30)
    wvDrivers,            \* drivers: the Driver objects, in the order given
    wvPickup,             \* pickup_location
    wvRequired,           \* required_capacity
    wvOracle,             \* a time_matrix_provider is passed
    wvResult,             \* the waves returned, NoResult before the call
    \* ---- PreloadingTimeMatrixProvider (routing/matrix_adapter.py:13-15)
    cache,                \* _cache: (source, destination) -> seconds, for the keys held
    orCalls,              \* prefetch and __call__ calls made so far
    orResult,             \* the last __call__: its coordinates and the matrix returned
    \* ---- the driver the runtime deals with (dispatch/state_machines/driver_state.py)
    drv,                  \* the Driver object the runtime holds for the driver
    drvJob,               \* order_ids of the job the driver holds, <<>> if none
    \* ---- the DriverPolicy handed to the dispatcher (drivers/policy.py)
    dpol,                 \* the policy object
    dpolChecked,          \* what a call of its validate() gave, NoResult before
    \* ---- one call of evaluate_bundle_feasibility (orders/batching/feasibility.py)
    feasBundle,           \* the orders passed, by id
    feasResult,           \* the FeasibilityResult returned, NoResult before the call
    \* ---- one call of build_clusters (orders/batching/clustering.py)
    clusterResult         \* the clusters returned, each a list of order ids

envVars == <<catalog, policy>>
queueVars == <<orders, raw_ids, batching_ids, ready_jobs, entered_raw_at,
               entered_batching_at>>
histVars == <<committed, lastOp>>
loopVars == <<waves, loopPc, waveIdx, sleepUntil, exhausted>>
lockVars == <<lockHolder, accepted, activeOffer>>
callVars == <<rpc, rdrv, rseen, rret>>
tickVars == <<tickPc, tickSnapshot, tickAt>>
batchVars == <<batchPool, batchAges, batchNear, batchResult>>
waveVars == <<wvDrivers, wvPickup, wvRequired, wvOracle, wvResult>>
oracleVars == <<cache, orCalls, orResult>>
driverVars == <<drv, drvJob>>
dpolVars == <<dpol, dpolChecked>>
feasVars == <<feasBundle, feasResult, clusterResult>>
fleetVars == <<waveVars, oracleVars, driverVars, dpolVars, feasVars>>
vars == <<envVars, clock, queueVars, histVars, loopVars, lockVars, callVars, pushLog,
          tickVars, batchVars, fleetVars>>

-----------------------------------------------------------------------------
(* Bounds of the model *)

HorizonMaxClock == 4    \* last clock value of a run of batching ticks
MaxOracleCalls == 3     \* prefetch and __call__ calls made of one provider
WaveTimeout == 2        \* wave_timeout_seconds of the driver policy, in ticks
MaxResolveCalls == 2    \* number of resolve_driver_acceptance calls in a run
MaxBusyWaves == 3       \* most non-empty waves in a wave configuration

QueueMaxClock == 2      \* last clock value of a queue run
MaxCommitJobs == 2      \* most jobs in one direct finalize_orders_as_ready_jobs call

MaxClock == MaxBusyWaves * WaveTimeout

-----------------------------------------------------------------------------
(* Values *)

NoDriver == "none"
NoTime == -1
NoOffer == [drivers |-> <<>>, expires_at |-> NoTime]
NoOp == [op |-> "none"]
NoResult == [returned |-> FALSE]
NoCache == [k \in {} |-> 0]

\* no wave construction asked for
WavesIdle ==
    /\ wvDrivers = <<>>
    /\ wvPickup = 0
    /\ wvRequired = 1
    /\ wvOracle = FALSE
    /\ wvResult = NoResult

\* a provider that was never called
OracleIdle ==
    /\ cache = NoCache
    /\ orCalls = 0
    /\ orResult = NoResult

\* an AVAILABLE driver of the default capacity, holding no job
DriverIdle ==
    /\ drv = [id |-> "A", location |-> 0, status |-> "available", max_capacity |-> 3]
    /\ drvJob = <<>>

\* DriverPolicy(): the declared defaults, the timeout in ticks, the radii in
\* units of 1e-2 degree and the ETAs in minutes
DefaultDriverPolicy ==
    [wave_timeout_seconds |-> 2, wave_radii_degrees |-> <<2, 4, 6, 8, 10>>,
     wave_eta_seconds |-> <<3, 7, 10, 13, 16>>, default_required_capacity |-> 1]

\* the default policy, validate() not called on it
DriverPolicyIdle ==
    /\ dpol = DefaultDriverPolicy
    /\ dpolChecked = NoResult

\* no feasibility search asked for
FeasibilityIdle ==
    /\ feasBundle = <<>>
    /\ feasResult = NoResult
    /\ clusterResult = NoResult

FleetIdle == WavesIdle /\ OracleIdle /\ DriverIdle /\ DriverPolicyIdle /\ FeasibilityIdle

OrderIds == {"o1", "o2", "o3"}
DriverIds == {"A", "B", "C"}
Calls == 1..MaxResolveCalls

Range(s) == {s[i] : i \in DOMAIN s}

\* number of times an order id is held by a sequence of ids / of jobs
RECURSIVE CountIn(_, _)
CountIn(ids, o) ==
    IF ids = <<>> THEN 0 ELSE (IF ids[1] = o THEN 1 ELSE 0) + CountIn(Tail(ids), o)

RECURSIVE CountInJobs(_, _)
CountInJobs(jobs, o) ==
    IF jobs = <<>> THEN 0 ELSE CountIn(jobs[1].order_ids, o) + CountInJobs(Tail(jobs), o)

\* list.remove(x): drops the first occurrence; absent x is guarded by callers
RemoveFirst(s, x) ==
    IF \E i \in DOMAIN s : s[i] = x
    THEN LET k == CHOOSE i \in DOMAIN s : s[i] = x /\ \A j \in 1..(i - 1) : s[j] # x
         IN  SubSeq(s, 1, k - 1) \o SubSeq(s, k + 1, Len(s))
    ELSE s

\* The job handed to the dispatcher: one READY order bound into a job.
DispatchedJob == [order_ids |-> <<"o1">>]

\* Wave lists as build_driver_waves returns them: five lists, a driver in
\* at most one of them.
WaveConfigs ==
    { <<<<"A", "B", "C">>, <<>>, <<>>, <<>>, <<>>>>,
      <<<<>>, <<"A">>, <<"B">>, <<>>, <<"C">>>>,
      <<<<"A">>, <<"B">>, <<>>, <<>>, <<>>>>,
      <<<<>>, <<>>, <<>>, <<>>, <<>>>> }

-----------------------------------------------------------------------------
(* The orders and the batching policy.  An order's attributes other than   *)
(* its status are fixed when it is built: catalog[o] holds them.           *)
(* Coordinates are points of a line, in units of 1e-4 degree; the time     *)
(* matrix oracle answers with the travel time between two points.          *)

Abs(x) == IF x < 0 THEN -x ELSE x

\* float("inf"): what the matrix adapter writes in a cell without a route
Infinity == 999

\* a point no road leads to or from
Offroad == {77}

\* TimeMatrixProvider: durations[i][j] for the coordinates asked
Duration(a, b) ==
    IF a # b /\ (a \in Offroad \/ b \in Offroad) THEN Infinity ELSE Abs(a - b)

\* a sum of floats one of which is inf is inf
Saturate(t) == IF t >= Infinity THEN Infinity ELSE t

\* order_age_seconds.get(order_id, 0.0)
AgeOf(order_age_seconds, order_id) ==
    IF order_id \in DOMAIN order_age_seconds THEN order_age_seconds[order_id] ELSE 0

\* fold helpers over sequences
RECURSIVE SumSeq(_)
SumSeq(s) == IF s = <<>> THEN 0 ELSE s[1] + SumSeq(Tail(s))

RECURSIVE Flatten(_)
Flatten(ss) == IF ss = <<>> THEN <<>> ELSE ss[1] \o Flatten(Tail(ss))

\* hands the value of an expression, worked out once, to what follows
With(value, Then(_)) == CHOOSE result \in {Then(v) : v \in {value}} : TRUE

\* sorted(items, key=...): stable, ascending in key[item]
SortedByKey(s, key) ==
    [i \in DOMAIN s |->
        s[CHOOSE j \in DOMAIN s :
            i = 1 + Cardinality({k \in DOMAIN s :
                                    \/ key[s[k]] < key[s[j]]
                                    \/ key[s[k]] = key[s[j]] /\ k < j})]]

StableSort(s, key) ==
    With(s, LAMBDA sv : With(key, LAMBDA kv : SortedByKey(sv, kv)))

\* sorted(ids): order ids compare as strings
IdRank(o) == CASE o = "o1" -> 1 [] o = "o2" -> 2 [] o = "o3" -> 3 [] OTHER -> 4

SortedIds(ids) == StableSort(ids, [o \in Range(ids) |-> IdRank(o)])

-----------------------------------------------------------------------------
(* The orders of the runs explored *)

\* Orders as they are built: pickup and dropoff are points of a line,
\* pickup_id "" stands for None, ready_at NoTime for None.
CatalogSameRoute ==
    [o \in OrderIds |->
        CASE o = "o1" -> [pickup |-> 0, dropoff |-> 10, pickup_id |-> "r1", created_at |-> 0,
                          ready_at |-> NoTime]
          [] o = "o2" -> [pickup |-> 0, dropoff |-> 10, pickup_id |-> "r1", created_at |-> 1,
                          ready_at |-> 1]
          [] OTHER    -> [pickup |-> 0, dropoff |-> 12, pickup_id |-> "r1", created_at |-> 2,
                          ready_at |-> NoTime]]

CatalogApart ==
    [o \in OrderIds |->
        CASE o = "o1" -> [pickup |-> 0, dropoff |-> 10, pickup_id |-> "", created_at |-> 1,
                          ready_at |-> NoTime]
          [] o = "o2" -> [pickup |-> 0, dropoff |-> 10, pickup_id |-> "", created_at |-> 0,
                          ready_at |-> NoTime]
          [] OTHER    -> [pickup |-> 50, dropoff |-> 40, pickup_id |-> "r2", created_at |-> 2,
                          ready_at |-> 1]]

\* three orders that follow one another along a road
CatalogGap ==
    [o \in OrderIds |->
        CASE o = "o1" -> [pickup |-> 0, dropoff |-> 10, pickup_id |-> "", created_at |-> 0,
                          ready_at |-> NoTime]
          [] o = "o2" -> [pickup |-> 13, dropoff |-> 23, pickup_id |-> "", created_at |-> 1,
                          ready_at |-> NoTime]
          [] OTHER    -> [pickup |-> 11, dropoff |-> 12, pickup_id |-> "", created_at |-> 2,
                          ready_at |-> NoTime]]

\* two orders of one route, and a third whose dropoff no road leads to
CatalogOffroad ==
    [o \in OrderIds |->
        CASE o = "o1" -> [pickup |-> 0, dropoff |-> 10, pickup_id |-> "r1", created_at |-> 0,
                          ready_at |-> NoTime]
          [] o = "o2" -> [pickup |-> 0, dropoff |-> 10, pickup_id |-> "r1", created_at |-> 1,
                          ready_at |-> NoTime]
          [] OTHER    -> [pickup |-> 0, dropoff |-> 77, pickup_id |-> "r1", created_at |-> 2,
                          ready_at |-> NoTime]]

\* Policies: the declared defaults with the waits brought down to a few
\* clock units, and a grouping policy in the manner of offpeak_policy().
ChainingPolicy ==
    [max_batch_size |-> 10, max_cluster_candidates |-> 20, max_candidate_pairs |-> 300,
     near_pickup_time_sec |-> 180, enable_continuous_chaining |-> TRUE,
     pair_detour_cap |-> 115, multi_detour_cap |-> 125, triple_detour_cap |-> 125,
     allow_triples |-> TRUE, batching_soft_wait_sec |-> 1, batching_hard_wait_sec |-> 3,
     enable_rolling_horizon |-> TRUE, max_wait_time_seconds |-> 2,
     prefer_older_orders |-> TRUE, age_weight |-> 5]

GroupingPolicy ==
    [max_batch_size |-> 2, max_cluster_candidates |-> 2, max_candidate_pairs |-> 1,
     near_pickup_time_sec |-> 150, enable_continuous_chaining |-> FALSE,
     pair_detour_cap |-> 110, multi_detour_cap |-> 118, triple_detour_cap |-> 118,
     allow_triples |-> FALSE, batching_soft_wait_sec |-> 1, batching_hard_wait_sec |-> 2,
     enable_rolling_horizon |-> FALSE, max_wait_time_seconds |-> 2,
     prefer_older_orders |-> FALSE, age_weight |-> 3]

\* the grouping policy with all of a cluster kept: the pickups of
\* CatalogApart are within its near-pickup threshold
NearPolicy ==
    [GroupingPolicy EXCEPT !.max_cluster_candidates = 20, !.max_candidate_pairs = 300]

\* the same with a near-pickup threshold that the pickups of CatalogApart exceed
ApartPolicy == [NearPolicy EXCEPT !.near_pickup_time_sec = 30]

\* the least max_batch_size that validates
SoloPolicy == [NearPolicy EXCEPT !.max_batch_size = 1]

\* age counts for more than a second saved, and the cap declared for
\* bundles of more than two orders is tighter than the one scoring.py reads
AgedPolicy == [ChainingPolicy EXCEPT !.age_weight = 200, !.multi_detour_cap = 105]

\* the runs explored: a catalog and the policy the manager is built with
Scenarios == {<<CatalogSameRoute, ChainingPolicy>>, <<CatalogApart, GroupingPolicy>>}

\* the bundles of distinct orders of a catalog, one to three orders long
CatalogBundles ==
    {<<a>> : a \in OrderIds}
        \cup {p \in OrderIds \X OrderIds : p[1] # p[2]}
        \cup {p \in OrderIds \X OrderIds \X OrderIds : p[1] # p[2] /\ p[1] # p[3] /\ p[2] # p[3]}

-----------------------------------------------------------------------------
(* orders/batching/feasibility.py *)

\* itertools.permutations(range(n)), as sequences over 1..n, in the order
\* itertools yields them: lexicographic
RECURSIVE PermsOf(_)
PermsOf(S) ==
    IF S = {} THEN <<<<>>>>
    ELSE Flatten([k \in 1..Cardinality(S) |->
             With(CHOOSE x \in S : Cardinality({y \in S : y < x}) = k - 1, LAMBDA first :
             With(PermsOf(S \ {first}), LAMBDA rest :
                 [i \in DOMAIN rest |-> <<first>> \o rest[i]]))])

Perms2 == PermsOf(1..2)
Perms4 == PermsOf(1..4)
Perms6 == PermsOf(1..6)

PermutationsOfRange(n) == CASE n = 2 -> Perms2 [] n = 4 -> Perms4 [] n = 6 -> Perms6

PosIn(perm, stop_idx) == CHOOSE i \in DOMAIN perm : perm[i] = stop_idx

\* stops: PICKUP then DROPOFF of each order of the bundle
BundleStops_DropoffFirst(bundle, cat) ==
    [k \in 1..(2 * Len(bundle)) |->
        LET o == bundle[(k + 1) \div 2] IN
        IF k % 2 = 0
        THEN [stop_type |-> "PICKUP", order_id |-> o, coord |-> cat[o].pickup,
              pickup_id |-> cat[o].pickup_id]
        ELSE [stop_type |-> "DROPOFF", order_id |-> o, coord |-> cat[o].dropoff,
              pickup_id |-> cat[o].pickup_id]]

\* lines 54-57: a pickup stop and a dropoff stop per order, in bundle order
BundleStops(bundle, cat) ==
    [k \in 1..(2 * Len(bundle)) |->
        LET o == bundle[(k + 1) \div 2] IN
        IF k % 2 = 1
        THEN [stop_type |-> "PICKUP", order_id |-> o, coord |-> cat[o].pickup,
              pickup_id |-> cat[o].pickup_id]
        ELSE [stop_type |-> "DROPOFF", order_id |-> o, coord |-> cat[o].dropoff,
              pickup_id |-> cat[o].pickup_id]]

\* pickup_index / dropoff_index: the last stop of each kind per order id
PickupIndex(stops, order_id) ==
    CHOOSE k \in DOMAIN stops :
        /\ stops[k].order_id = order_id /\ stops[k].stop_type = "PICKUP"
        /\ \A m \in DOMAIN stops :
              (stops[m].order_id = order_id /\ stops[m].stop_type = "PICKUP") => m <= k

DropoffIndex(stops, order_id) ==
    CHOOSE k \in DOMAIN stops :
        /\ stops[k].order_id = order_id /\ stops[k].stop_type = "DROPOFF"
        /\ \A m \in DOMAIN stops :
              (stops[m].order_id = order_id /\ stops[m].stop_type = "DROPOFF") => m <= k

RespectsPrecedence(perm, stops) ==
    \A o \in {stops[k].order_id : k \in DOMAIN stops} :
        ~ (PosIn(perm, PickupIndex(stops, o)) > PosIn(perm, DropoffIndex(stops, o)))

\* the permutations that respect precedence when the orders of the bundle
\* are distinct: order k has its pickup at stop 2k-1, its dropoff at stop 2k
PrecedencePerms2 == SelectSeq(Perms2, LAMBDA p : PosIn(p, 1) < PosIn(p, 2))
PrecedencePerms4 ==
    SelectSeq(Perms4, LAMBDA p : PosIn(p, 1) < PosIn(p, 2) /\ PosIn(p, 3) < PosIn(p, 4))
PrecedencePerms6 ==
    SelectSeq(Perms6, LAMBDA p : PosIn(p, 1) < PosIn(p, 2) /\ PosIn(p, 3) < PosIn(p, 4)
                                    /\ PosIn(p, 5) < PosIn(p, 6))

ValidPermutations(stops) ==
    IF 2 * Cardinality({stops[k].order_id : k \in DOMAIN stops}) = Len(stops)
    THEN CASE Len(stops) = 2 -> PrecedencePerms2
           [] Len(stops) = 4 -> PrecedencePerms4
           [] OTHER -> PrecedencePerms6
    ELSE SelectSeq(PermutationsOfRange(Len(stops)), LAMBDA p : RespectsPrecedence(p, stops))

SequenceTimeSeconds(perm, stops) ==
    Saturate(SumSeq([i \in 1..(Len(perm) - 1) |->
                        Duration(stops[perm[i]].coord, stops[perm[i + 1]].coord)]))

Infeasible == [is_feasible |-> FALSE, best_stops |-> <<>>, best_time_seconds |-> Infinity]

\* best_time = inf, best_perm = None
NoBest == [best_time |-> Infinity, best_perm |-> <<>>]

\* the loop keeping the first permutation that respects precedence, whatever its time
RECURSIVE SearchLoop_KeepFirst(_, _, _, _, _)
SearchLoop_KeepFirst(perms, lo, hi, stops, best) ==
    IF lo > hi THEN best
    ELSE IF lo = hi
    THEN With(SequenceTimeSeconds(perms[lo], stops), LAMBDA t :
             IF best.best_perm = <<>> /\ t < Infinity
             THEN [best_time |-> t, best_perm |-> perms[lo]]
             ELSE best)
    ELSE With((lo + hi) \div 2, LAMBDA mid :
         With(SearchLoop_KeepFirst(perms, lo, mid, stops, best), LAMBDA so_far :
             SearchLoop_KeepFirst(perms, mid + 1, hi, stops, so_far)))

\* lines 83-92: the loop over the permutations that respect precedence,
\* here those from `lo` to `hi`, run as its first half and then its second;
\* a permutation replaces the best one only if t < best_time
RECURSIVE SearchLoop(_, _, _, _, _)
SearchLoop(perms, lo, hi, stops, best) ==
    IF lo > hi THEN best
    ELSE IF lo = hi
    THEN With(SequenceTimeSeconds(perms[lo], stops), LAMBDA t :
             IF t < best.best_time THEN [best_time |-> t, best_perm |-> perms[lo]]
             ELSE best)
    ELSE With((lo + hi) \div 2, LAMBDA mid :
         With(SearchLoop(perms, lo, mid, stops, best), LAMBDA so_far :
             SearchLoop(perms, mid + 1, hi, stops, so_far)))

\* lines 79-99: the search over the permutations of the stops
BestSequence(stops) ==
    With(ValidPermutations(stops), LAMBDA perms :
    With(SearchLoop(perms, 1, Len(perms), stops, NoBest), LAMBDA best :
        IF best.best_perm = <<>> THEN Infeasible
        ELSE [is_feasible |-> TRUE,
              best_stops |-> [i \in DOMAIN best.best_perm |-> stops[best.best_perm[i]]],
              best_time_seconds |-> best.best_time]))

\* the search depends on the stops alone: its results for the bundles of
\* the catalogs are tabulated once
TabulatedStops ==
    {BundleStops(b, cat) : b \in CatalogBundles,
                          cat \in {CatalogSameRoute, CatalogApart, CatalogGap, CatalogOffroad}}

BestSequenceTable == [stops \in TabulatedStops |-> BestSequence(stops)]

EvaluateBundleFeasibility(bundle, cat) ==
    IF Len(bundle) <= 0 \/ Len(bundle) > 3 THEN Infeasible
    ELSE LET stops == BundleStops(bundle, cat)
         IN  IF stops \in TabulatedStops THEN BestSequenceTable[stops]
             ELSE BestSequence(stops)

BestSingleTimeSumSeconds(bundle, cat) ==
    SumSeq([i \in DOMAIN bundle |-> Duration(cat[bundle[i]].pickup, cat[bundle[i]].dropoff)])

-----------------------------------------------------------------------------
(* orders/batching/clustering.py *)

Cap(items, max_n) == IF max_n <= 0 THEN items ELSE SubSeq(items, 1, IF Len(items) < max_n THEN Len(items) ELSE max_n)

\* the key an order is grouped under: its pickup_id, else its pickup
\* coordinate rounded to 4 decimals (a whole number of coordinate units)
ClusterKey(o, cat) ==
    IF cat[o].pickup_id # "" THEN <<"pickup_id", cat[o].pickup_id>>
    ELSE <<"pickup_coord", cat[o].pickup>>

\* keys in dict order: pickup_id groups in first-seen order, then the
\* coordinate buckets in first-seen order
RECURSIVE FirstSeen(_, _)
FirstSeen(keys, seen) ==
    IF keys = <<>> THEN <<>>
    ELSE IF keys[1] \in seen THEN FirstSeen(Tail(keys), seen)
         ELSE <<keys[1]>> \o FirstSeen(Tail(keys), seen \cup {keys[1]})

\* build_clusters called without a pickup_time_matrix_provider
BuildClusters(pool, pol, cat) ==
    IF pool = <<>> THEN <<>>
    ELSE IF pol.enable_continuous_chaining THEN <<pool>>
    ELSE LET keys == [i \in DOMAIN pool |-> ClusterKey(pool[i], cat)]
             idKeys == FirstSeen(SelectSeq(keys, LAMBDA k : k[1] = "pickup_id"), {})
             coordKeys == FirstSeen(SelectSeq(keys, LAMBDA k : k[1] = "pickup_coord"), {})
             allKeys == idKeys \o coordKeys
             Group(k) == SelectSeq(pool, LAMBDA o : ClusterKey(o, cat) = k)
             created == [o \in Range(pool) |-> cat[o].created_at]
         IN  [i \in DOMAIN allKeys |->
                 Cap(StableSort(Group(allKeys[i]), created), pol.max_cluster_candidates)]

\* clusters i and j have representative pickups (the first order's) within
\* near_pickup_time_sec of one another, in either direction
NearPickups(clusters, i, j, pol, cat) ==
    Duration(cat[clusters[i][1]].pickup, cat[clusters[j][1]].pickup)
        <= pol.near_pickup_time_sec

\* the clusters the union-find joins with those of S
RECURSIVE JoinedWith(_, _, _, _)
JoinedWith(S, clusters, pol, cat) ==
    With(S \cup {j \in DOMAIN clusters :
                    \E i \in S : NearPickups(clusters, i, j, pol, cat)}, LAMBDA grown :
        IF grown = S THEN S ELSE JoinedWith(grown, clusters, pol, cat))

\* _merge_near_pickup_clusters: one cluster per root, in the order the roots
\* are first met, each the joined clusters' orders sorted by created_at and capped
MergeNearPickupClusters(clusters, pol, cat) ==
    IF Len(clusters) <= 1 THEN clusters
    ELSE LET joined == [i \in DOMAIN clusters |-> JoinedWith({i}, clusters, pol, cat)]
             firsts == SelectSeq([i \in DOMAIN clusters |-> i],
                                 LAMBDA i : \A k \in joined[i] : i <= k)
             Group(i) == Flatten(SelectSeq([k \in DOMAIN clusters |->
                                               IF k \in joined[i] THEN clusters[k] ELSE <<>>],
                                           LAMBDA c : c # <<>>))
             created == [o \in OrderIds |-> cat[o].created_at]
         IN  [n \in DOMAIN firsts |->
                 Cap(StableSort(Group(firsts[n]), created), pol.max_cluster_candidates)]

\* build_clusters called with a pickup_time_matrix_provider
BuildClustersNear(pool, pol, cat) ==
    IF pool = <<>> \/ pol.enable_continuous_chaining \/ pol.near_pickup_time_sec <= 0
    THEN BuildClusters(pool, pol, cat)
    ELSE With(BuildClusters(pool, pol, cat), LAMBDA clusters :
             MergeNearPickupClusters(clusters, pol, cat))

-----------------------------------------------------------------------------
(* orders/batching/scoring.py.  A policy is a record of the attributes the *)
(* engine reads; detour caps and age_weight are held in hundredths, and a  *)
(* candidate's score in hundredths of a second.                            *)

NoAges == [o \in {} |-> 0]

\* score = savings (+ age_weight * summed age, if asked for and ages given)
BundleScore(savings, bundle, pol, order_age_seconds) ==
    100 * savings
    + (IF pol.prefer_older_orders /\ DOMAIN order_age_seconds # {}
       THEN pol.age_weight * SumSeq([i \in DOMAIN bundle |-> AgeOf(order_age_seconds, bundle[i])])
       ELSE 0)

\* one bundle as a candidate: <<candidate>>, or <<>> if it is skipped
CandidateFrom(feas, single_sum, bundle, detour_cap, pol, order_age_seconds) ==
    IF ~feas.is_feasible THEN <<>>
    ELSE IF single_sum <= 0 THEN <<>>
    ELSE IF 100 * feas.best_time_seconds > detour_cap * single_sum THEN <<>>
    ELSE <<[order_ids |-> SortedIds(bundle),
            stops |-> feas.best_stops,
            batch_time_seconds |-> feas.best_time_seconds,
            single_time_sum_seconds |-> single_sum,
            savings_seconds |-> single_sum - feas.best_time_seconds,
            score |-> BundleScore(single_sum - feas.best_time_seconds, bundle, pol,
                                  order_age_seconds)]>>

Candidate(bundle, detour_cap, pol, cat, order_age_seconds) ==
    With(EvaluateBundleFeasibility(bundle, cat), LAMBDA feas :
    With(BestSingleTimeSumSeconds(bundle, cat), LAMBDA single_sum :
        CandidateFrom(feas, single_sum, bundle, detour_cap, pol, order_age_seconds)))

\* the (i, j) of the two nested loops, i < j, in iteration order
IndexPairs(n) == Flatten([i \in 1..n |-> [k \in 1..(n - i) |-> <<i, i + k>>]])

\* the nested loops from pair `at` on; they stop once max_candidate_pairs
\* candidates are held
RECURSIVE PairLoop(_, _, _, _, _, _, _)
PairLoop(todo, at, candidates, ids, pol, cat, order_age_seconds) ==
    IF at > Len(todo) THEN candidates
    ELSE With(Candidate(<<ids[todo[at][1]], ids[todo[at][2]]>>, pol.pair_detour_cap, pol,
                        cat, order_age_seconds), LAMBDA c :
         With(candidates \o c, LAMBDA next :
             IF c # <<>> /\ Len(next) >= pol.max_candidate_pairs THEN next
             ELSE PairLoop(todo, at + 1, next, ids, pol, cat, order_age_seconds)))

BuildPairCandidates(cluster_orders, pol, cat, order_age_seconds) ==
    With(IndexPairs(Len(cluster_orders)), LAMBDA todo :
    With(PairLoop(todo, 1, <<>>, cluster_orders, pol, cat, order_age_seconds),
         LAMBDA candidates :
             StableSort(candidates, [c \in Range(candidates) |-> 0 - c.score])))

Overlaps_Never(c, used) == FALSE

\* any(oid in used for oid in c.order_ids)
Overlaps(c, used) == \E oid \in Range(c.order_ids) : oid \in used

RECURSIVE GreedyLoop(_, _, _, _)
GreedyLoop(candidates, at, selected, used) ==
    IF at > Len(candidates) THEN selected
    ELSE IF Overlaps(candidates[at], used) THEN GreedyLoop(candidates, at + 1, selected, used)
    ELSE With(Append(selected, candidates[at]), LAMBDA selected_next :
         With(used \cup Range(candidates[at].order_ids), LAMBDA used_next :
             GreedyLoop(candidates, at + 1, selected_next, used_next)))

SelectDisjointGreedy(candidates) ==
    With(candidates, LAMBDA sorted : GreedyLoop(sorted, 1, <<>>, {}))

\* _rebuild_orders_from_stops.find_coords: the last stop of each kind wins
RebuildOrderFromStops(stops, oid) ==
    [pickup |-> stops[PickupIndex(stops, oid)].coord,
     dropoff |-> stops[DropoffIndex(stops, oid)].coord,
     pickup_id |-> stops[CHOOSE k \in DOMAIN stops :
                            /\ stops[k].order_id = oid
                            /\ \A m \in DOMAIN stops : stops[m].order_id = oid => m <= k
                        ].pickup_id,
     created_at |-> 0,
     ready_at |-> NoTime]

\* the triple one pair and one leftover make: <<[gain, triple, pair, added_id]>> or <<>>
UpgradeFrom(triple, pair, add) ==
    IF triple = <<>> THEN <<>>
    ELSE IF triple[1].savings_seconds - pair.savings_seconds <= 0 THEN <<>>
    ELSE <<[gain |-> triple[1].savings_seconds - pair.savings_seconds,
            triple |-> triple[1], pair |-> pair, added_id |-> add]>>

UpgradeOption(pair, add, pol, cat, order_age_seconds) ==
    With([cat EXCEPT ![pair.order_ids[1]] = RebuildOrderFromStops(pair.stops, pair.order_ids[1]),
                     ![pair.order_ids[2]] = RebuildOrderFromStops(pair.stops, pair.order_ids[2])],
         LAMBDA rebuilt :
    With(Candidate(<<pair.order_ids[1], pair.order_ids[2], add>>, pol.triple_detour_cap, pol,
                   rebuilt, order_age_seconds), LAMBDA triple :
        UpgradeFrom(triple, pair, add)))

\* best third order for one pair: the first leftover of greatest gain
FirstBest(opts) ==
    IF opts = <<>> THEN <<>>
    ELSE <<opts[CHOOSE i \in DOMAIN opts :
                    /\ \A j \in DOMAIN opts : opts[j].gain <= opts[i].gain
                    /\ \A j \in 1..(i - 1) : opts[j].gain < opts[i].gain]>>

BestUpgrade(pair, leftovers, pol, cat, order_age_seconds) ==
    With(Flatten([i \in DOMAIN leftovers |->
                     UpgradeOption(pair, leftovers[i], pol, cat, order_age_seconds)]),
         LAMBDA opts : FirstBest(opts))

RECURSIVE ApplyUpgrades(_, _, _, _, _)
ApplyUpgrades(options, at, triples, used_leftover, upgraded_pair_ids) ==
    IF at > Len(options)
    THEN [triples |-> triples, used_leftover |-> used_leftover,
          upgraded_pair_ids |-> upgraded_pair_ids]
    ELSE IF options[at].added_id \in used_leftover
              \/ options[at].pair.order_ids \in upgraded_pair_ids
         THEN ApplyUpgrades(options, at + 1, triples, used_leftover, upgraded_pair_ids)
         ELSE With(Append(triples, options[at].triple), LAMBDA t :
              With(used_leftover \cup {options[at].added_id}, LAMBDA u :
              With(upgraded_pair_ids \cup {options[at].pair.order_ids}, LAMBDA g :
                  ApplyUpgrades(options, at + 1, t, u, g))))

UpgradeResult_PairsKept(done, selected_pairs, leftovers) ==
    [triples |-> done.triples,
     pairs |-> selected_pairs,
     leftovers |-> SelectSeq(leftovers, LAMBDA o : o \notin done.used_leftover)]

\* lines 350-358: the pairs that were not upgraded and the leftovers not taken
UpgradeResult(done, selected_pairs, leftovers) ==
    [triples |-> done.triples,
     pairs |-> SelectSeq(selected_pairs, LAMBDA p : p.order_ids \notin done.upgraded_pair_ids),
     leftovers |-> SelectSeq(leftovers, LAMBDA o : o \notin done.used_leftover)]

UpgradePairsToTriples(selected_pairs, leftovers, pol, cat, order_age_seconds) ==
    IF selected_pairs = <<>> \/ leftovers = <<>>
    THEN [triples |-> <<>>, pairs |-> selected_pairs, leftovers |-> leftovers]
    ELSE With(Flatten([i \in DOMAIN selected_pairs |->
                          BestUpgrade(selected_pairs[i], leftovers, pol, cat,
                                      order_age_seconds)]), LAMBDA upgrade_options :
         With(StableSort(upgrade_options, [u \in Range(upgrade_options) |-> 0 - u.gain]),
              LAMBDA sorted :
         With(ApplyUpgrades(sorted, 1, <<>>, {}, {}), LAMBDA done :
             UpgradeResult(done, selected_pairs, leftovers))))

CandidateToJob(candidate, job_type) ==
    [job_type |-> job_type, order_ids |-> candidate.order_ids, stops |-> candidate.stops]

SingleJob(o, cat) ==
    [job_type |-> "SINGLE", order_ids |-> <<o>>, stops |-> BundleStops(<<o>>, cat)]

\* a leftover younger than max_wait_time_seconds is deferred, not emitted
Deferred(o, pol, order_age_seconds) ==
    /\ pol.enable_rolling_horizon
    /\ (IF DOMAIN order_age_seconds # {} THEN AgeOf(order_age_seconds, o) ELSE 0)
           < pol.max_wait_time_seconds

\* step 4: triples, then pairs, then the leftovers that are not deferred
JobsOf(up, pol, cat, order_age_seconds) ==
    [i \in DOMAIN up.triples |-> CandidateToJob(up.triples[i], "BATCH_3")]
    \o [i \in DOMAIN up.pairs |-> CandidateToJob(up.pairs[i], "BATCH_2")]
    \o SelectSeq([i \in DOMAIN up.leftovers |-> SingleJob(up.leftovers[i], cat)],
                 LAMBDA j : ~Deferred(j.order_ids[1], pol, order_age_seconds))

\* steps 3 and 4, from the selected pairs on
UpgradeAndEmit(selected_pairs, leftovers, pol, cat, order_age_seconds) ==
    With(IF pol.allow_triples /\ pol.max_batch_size >= 3 /\ leftovers # <<>>
         THEN UpgradePairsToTriples(selected_pairs, leftovers, pol, cat, order_age_seconds)
         ELSE [triples |-> <<>>, pairs |-> selected_pairs, leftovers |-> leftovers],
         LAMBDA up : JobsOf(up, pol, cat, order_age_seconds))

UsedBy(selected_pairs) ==
    UNION {Range(selected_pairs[i].order_ids) : i \in DOMAIN selected_pairs}

ScoreAndSelectJobs(cluster_orders, pol, cat, order_age_seconds) ==
    IF cluster_orders = <<>> THEN <<>>
    ELSE With(SelectDisjointGreedy(
                  BuildPairCandidates(cluster_orders, pol, cat, order_age_seconds)),
              LAMBDA selected_pairs :
         With(UsedBy(selected_pairs), LAMBDA used :
         With(SelectSeq(FirstSeen(cluster_orders, {}), LAMBDA oid : oid \notin used),
              LAMBDA leftovers :
             UpgradeAndEmit(selected_pairs, leftovers, pol, cat, order_age_seconds))))

-----------------------------------------------------------------------------
(* orders/batching/engine.py *)

JobOrderIds(jobs) == UNION {Range(jobs[i].order_ids) : i \in DOMAIN jobs}

RECURSIVE ClusterLoop(_, _, _, _, _, _, _)
ClusterLoop(clusters, at, jobs, used_order_ids, pol, cat, order_age_seconds) ==
    IF at > Len(clusters) THEN jobs
    ELSE With(ScoreAndSelectJobs(SelectSeq(clusters[at], LAMBDA o : o \notin used_order_ids),
                                 pol, cat, order_age_seconds), LAMBDA cluster_jobs :
         With(jobs \o cluster_jobs, LAMBDA jobs_next :
         With(used_order_ids \cup JobOrderIds(cluster_jobs), LAMBDA used_next :
             ClusterLoop(clusters, at + 1, jobs_next, used_next, pol, cat,
                         order_age_seconds))))

\* BatchingPolicy.validate: the checks that raise ValueError
PolicyValid(pol) ==
    /\ pol.max_batch_size >= 1
    /\ pol.pair_detour_cap >= 100
    /\ pol.multi_detour_cap >= 100
    /\ pol.near_pickup_time_sec > 0
    /\ pol.max_cluster_candidates > 0
    /\ pol.max_candidate_pairs > 0
    /\ pol.batching_soft_wait_sec >= 0 /\ pol.batching_hard_wait_sec >= 0
    /\ (pol.batching_hard_wait_sec # 0 /\ pol.batching_soft_wait_sec # 0
           => pol.batching_hard_wait_sec >= pol.batching_soft_wait_sec)

BatchResult_AllUnbatched(jobs, pool) ==
    [jobs |-> jobs, unbatched_orders |-> FirstSeen(pool, {})]

\* lines 138-142: the input orders no emitted job lists, in input order
BatchResult(jobs, pool) ==
    [jobs |-> jobs,
     unbatched_orders |->
         SelectSeq(FirstSeen(pool, {}), LAMBDA oid : oid \notin JobOrderIds(jobs))]

\* batch_orders, for a policy that validates
BatchOrders(pool, pol, cat, order_age_seconds) ==
    IF pool = <<>> THEN [jobs |-> <<>>, unbatched_orders |-> <<>>]
    ELSE With(BuildClusters(pool, pol, cat), LAMBDA clusters :
         With(ClusterLoop(clusters, 1, <<>>, {}, pol, cat, order_age_seconds), LAMBDA jobs :
             BatchResult(jobs, pool)))

\* batch_orders called with a pickup_time_matrix_provider
BatchOrdersNear(pool, pol, cat, order_age_seconds) ==
    IF pool = <<>> THEN [jobs |-> <<>>, unbatched_orders |-> <<>>]
    ELSE With(BuildClustersNear(pool, pol, cat), LAMBDA clusters :
         With(ClusterLoop(clusters, 1, <<>>, {}, pol, cat, order_age_seconds), LAMBDA jobs :
             BatchResult(jobs, pool)))

-----------------------------------------------------------------------------
(* OrdersQueue.evict_cancelled *)

EvictCancelled_TimingKept(order_id) ==
    /\ lastOp' = [op |-> "cancel", known |-> orders[order_id] # "ABSENT"]
    /\ IF orders[order_id] = "ABSENT"
       THEN UNCHANGED queueVars
       ELSE /\ orders' = [orders EXCEPT ![order_id] = "CANCELLED"]
            /\ raw_ids' = RemoveFirst(raw_ids, order_id)
            /\ batching_ids' = RemoveFirst(batching_ids, order_id)
            /\ UNCHANGED <<ready_jobs, entered_raw_at, entered_batching_at>>
    /\ UNCHANGED committed

EvictCancelled(order_id) ==
    /\ lastOp' = [op |-> "cancel", known |-> orders[order_id] # "ABSENT"]
    /\ IF orders[order_id] = "ABSENT"
       THEN UNCHANGED queueVars
       ELSE /\ orders' = [orders EXCEPT ![order_id] = "CANCELLED"]
            /\ raw_ids' = RemoveFirst(raw_ids, order_id)
            /\ batching_ids' = RemoveFirst(batching_ids, order_id)
            /\ entered_raw_at' = [entered_raw_at EXCEPT ![order_id] = NoTime]
            /\ entered_batching_at' = [entered_batching_at EXCEPT ![order_id] = NoTime]
            /\ UNCHANGED ready_jobs
    /\ UNCHANGED committed

-----------------------------------------------------------------------------
(* orders/queue.py: OrdersQueue and RollingHorizonManager.  Order, Stop and *)
(* Job objects carry the attribute names the queue and the engine use.     *)

NoneValue == -1

IsKnown_InRawOnly(order_id) == order_id \in Range(raw_ids)

\* order.id in self._orders
IsKnown(order_id) == orders[order_id] # "ABSENT"

\* OrdersQueue.enqueue_raw
EnqueueRaw(order_id) ==
    /\ lastOp' = [op |-> "enqueue", known |-> orders[order_id] # "ABSENT"]
    /\ IF IsKnown(order_id)
       THEN UNCHANGED queueVars
       ELSE /\ orders' = [orders EXCEPT ![order_id] = "RAW"]
            /\ raw_ids' = Append(raw_ids, order_id)
            /\ entered_raw_at' = [entered_raw_at EXCEPT ![order_id] = clock]
            /\ UNCHANGED <<batching_ids, ready_jobs, entered_batching_at>>
    /\ UNCHANGED committed

\* s[:n] and s[n:] of a Python list, n of either sign
SliceTo(s, n) ==
    IF n >= 0 THEN SubSeq(s, 1, IF n < Len(s) THEN n ELSE Len(s))
    ELSE SubSeq(s, 1, IF Len(s) + n > 0 THEN Len(s) + n ELSE 0)

SliceFrom(s, n) ==
    IF n >= 0 THEN SubSeq(s, (IF n < Len(s) THEN n ELSE Len(s)) + 1, Len(s))
    ELSE SubSeq(s, (IF Len(s) + n > 0 THEN Len(s) + n ELSE 0) + 1, Len(s))

\* the list pop_ready_jobs returns
PoppedJobs(num_jobs) == IF num_jobs <= 0 THEN <<>> ELSE SliceTo(ready_jobs, num_jobs)

PopReadyJobs_NoGuard(num_jobs) ==
    /\ lastOp' = [op |-> "pop"]
    /\ ready_jobs' = SliceFrom(ready_jobs, num_jobs)
    /\ UNCHANGED <<orders, raw_ids, batching_ids, entered_raw_at, entered_batching_at,
                   committed>>

\* OrdersQueue.pop_ready_jobs
PopReadyJobs(num_jobs) ==
    /\ lastOp' = [op |-> "pop"]
    /\ ready_jobs' = IF num_jobs <= 0 THEN ready_jobs ELSE SliceFrom(ready_jobs, num_jobs)
    /\ UNCHANGED <<orders, raw_ids, batching_ids, entered_raw_at, entered_batching_at,
                   committed>>

\* the queue as move_raw_to_batching works on it
QueueState ==
    [orders |-> orders, raw_ids |-> raw_ids, batching_ids |-> batching_ids,
     entered_batching_at |-> entered_batching_at, moved |-> <<>>, raised |-> FALSE]

\* ready_by_window where line 162 is not reached: no horizon, or ready_at unknown
ReadyByWindow(order_id, ready_horizon_secs) ==
    IF ready_horizon_secs > 0 THEN catalog[order_id].ready_at = NoTime ELSE TRUE

\* force_by_age: the order has been in RAW for max_raw_age_sec or longer
ForceByAge(order_id, now, max_raw_age_sec) ==
    /\ max_raw_age_sec # NoneValue
    /\ now - (IF entered_raw_at[order_id] = NoTime THEN now ELSE entered_raw_at[order_id])
           >= max_raw_age_sec

\* lines 165-169: one order goes from RAW to BATCHING
Moved(q, order_id, now) ==
    [q EXCEPT !.raw_ids = RemoveFirst(q.raw_ids, order_id),
              !.batching_ids = Append(q.batching_ids, order_id),
              !.orders[order_id] = "BATCHING",
              !.entered_batching_at[order_id] = now,
              !.moved = Append(q.moved, order_id)]

\* the loop of move_raw_to_batching over the snapshot of _raw_ids, from
\* position `at` on; line 162 reads the unbound name ready_horizon_sec, which
\* ends the call with a NameError and leaves the moves made so far in place
RECURSIVE MoveLoop(_, _, _, _, _, _, _)
MoveLoop(raw_snapshot, at, q, now, ready_horizon_secs, max_raw_age_sec, limit) ==
    IF at > Len(raw_snapshot) THEN q
    ELSE IF limit # NoneValue /\ Len(q.moved) >= limit THEN q
    ELSE IF q.orders[raw_snapshot[at]] # "RAW"
    THEN With([q EXCEPT !.raw_ids = RemoveFirst(q.raw_ids, raw_snapshot[at])], LAMBDA q_next :
             MoveLoop(raw_snapshot, at + 1, q_next, now, ready_horizon_secs, max_raw_age_sec,
                      limit))
    ELSE IF ready_horizon_secs > 0 /\ catalog[raw_snapshot[at]].ready_at # NoTime
    THEN [q EXCEPT !.raised = TRUE]
    ELSE IF \/ ForceByAge(raw_snapshot[at], now, max_raw_age_sec)
            \/ ReadyByWindow(raw_snapshot[at], ready_horizon_secs)
    THEN With(Moved(q, raw_snapshot[at], now), LAMBDA q_next :
             MoveLoop(raw_snapshot, at + 1, q_next, now, ready_horizon_secs, max_raw_age_sec,
                      limit))
    ELSE MoveLoop(raw_snapshot, at + 1, q, now, ready_horizon_secs, max_raw_age_sec, limit)

MoveResult(now, ready_horizon_secs, max_raw_age_sec, limit) ==
    With(QueueState, LAMBDA q :
        MoveLoop(q.raw_ids, 1, q, now, ready_horizon_secs, max_raw_age_sec, limit))

\* OrdersQueue.move_raw_to_batching
MoveRawToBatching(ready_horizon_secs, max_raw_age_sec, limit) ==
    \E q \in {MoveResult(clock, ready_horizon_secs, max_raw_age_sec, limit)} :
        /\ lastOp' = [op |-> "advance", raised |-> q.raised]
        /\ orders' = q.orders
        /\ raw_ids' = q.raw_ids
        /\ batching_ids' = q.batching_ids
        /\ entered_batching_at' = q.entered_batching_at
        /\ UNCHANGED <<ready_jobs, entered_raw_at, committed>>

Finalized_StaysInBatching(q, order_id) ==
    [q EXCEPT !.orders[order_id] = IF q.orders[order_id] = "ABSENT" THEN "ABSENT" ELSE "READY"]

\* lines 200-203: one order leaves BATCHING and is marked READY
Finalized(q, order_id) ==
    [q EXCEPT !.batching_ids = RemoveFirst(q.batching_ids, order_id),
              !.orders[order_id] = IF q.orders[order_id] = "ABSENT" THEN "ABSENT" ELSE "READY"]

\* the loop of finalize_orders_as_ready_jobs over the snapshot of _batching_ids
RECURSIVE FinalizeLoop(_, _, _, _)
FinalizeLoop(batching_snapshot, at, q, used_order_ids) ==
    IF at > Len(batching_snapshot) THEN q
    ELSE IF batching_snapshot[at] \in used_order_ids
    THEN With(Finalized(q, batching_snapshot[at]), LAMBDA q_next :
             FinalizeLoop(batching_snapshot, at + 1, q_next, used_order_ids))
    ELSE FinalizeLoop(batching_snapshot, at + 1, q, used_order_ids)

FinalizeResult(q, jobs) ==
    With(JobOrderIds(jobs), LAMBDA used_order_ids :
        FinalizeLoop(q.batching_ids, 1, q, used_order_ids))

\* OrdersQueue.finalize_orders_as_ready_jobs
FinalizeOrdersAsReadyJobs(jobs) ==
    \E q \in {FinalizeResult(QueueState, jobs)} :
        /\ lastOp' = [op |-> "commit"]
        /\ orders' = q.orders
        /\ batching_ids' = q.batching_ids
        /\ ready_jobs' = ready_jobs \o jobs
        /\ committed' = [o \in OrderIds |-> committed[o] + CountInJobs(jobs, o)]
        /\ UNCHANGED <<raw_ids, entered_raw_at, entered_batching_at>>

\* batching_wait_seconds / raw_wait_seconds: NoneValue if no entry time
WaitSeconds(entered_at, order_id, now) ==
    IF entered_at[order_id] = NoTime THEN NoneValue ELSE now - entered_at[order_id]

\* run_cycle step 3: the age handed to the engine for one pooled order
AgeOrFallback(age, raw_age) ==
    IF age = NoneValue \/ age = 0
    THEN (IF raw_age = NoneValue \/ raw_age = 0 THEN 1 ELSE raw_age)
    ELSE age

CycleAge(q, order_id, now) ==
    AgeOrFallback(WaitSeconds(q.entered_batching_at, order_id, now),
                  WaitSeconds(entered_raw_at, order_id, now))

CycleAges(q, now) ==
    IF policy.prefer_older_orders
    THEN [o \in Range(q.batching_ids) |-> CycleAge(q, o, now)]
    ELSE NoAges

\* RollingHorizonManager.run_cycle
RunCycle ==
    \E q \in {MoveResult(clock, 0, policy.batching_soft_wait_sec,
                         policy.max_cluster_candidates * 10)} :
    \E order_age_seconds \in {CycleAges(q, clock)} :
    \E result \in {BatchOrders(q.batching_ids, policy, catalog, order_age_seconds)} :
    \E done \in {IF result.jobs # <<>> THEN FinalizeResult(q, result.jobs) ELSE q} :
        /\ lastOp' = [op |-> "cycle"]
        /\ orders' = done.orders
        /\ raw_ids' = done.raw_ids
        /\ batching_ids' = done.batching_ids
        /\ entered_batching_at' = done.entered_batching_at
        /\ ready_jobs' = ready_jobs \o result.jobs
        /\ committed' = [o \in OrderIds |-> committed[o] + CountInJobs(result.jobs, o)]
        /\ UNCHANGED entered_raw_at

\* commit_jobs applied to the batch_orders result over the BATCHING pool
CommitBatchResult(order_age_seconds) ==
    \E result \in {BatchOrders(batching_ids, policy, catalog, order_age_seconds)} :
        FinalizeOrdersAsReadyJobs(result.jobs)

-----------------------------------------------------------------------------
(* The lock manager, as the dispatcher uses it *)

LockFree == lockHolder = 0

IsJobAccepted == accepted # NoDriver

GetActiveOfferDrivers == activeOffer.drivers

-----------------------------------------------------------------------------
(* Dispatcher.dispatch_job_async_loop *)

\* for wave_index, wave_drivers in enumerate(waves): if not wave_drivers: continue
LoopNext ==
    /\ loopPc = "next"
    /\ IF waveIdx = 5
       THEN /\ loopPc' = "done"
            /\ exhausted' = TRUE
            /\ UNCHANGED waveIdx
       ELSE /\ waveIdx' = waveIdx + 1
            /\ loopPc' = IF waves[waveIdx + 1] = <<>> THEN "next" ELSE "offer"
            /\ UNCHANGED exhausted
    /\ UNCHANGED <<envVars, tickVars, batchVars, fleetVars, clock, queueVars, histVars, waves, sleepUntil, lockVars, callVars, pushLog>>

\* db_lock_manager.set_active_offer(job.id, wave_driver_ids, expires_in_sec=...)
LoopSetActiveOffer ==
    /\ loopPc = "offer"
    /\ activeOffer' = [drivers |-> waves[waveIdx], expires_at |-> clock + WaveTimeout]
    /\ loopPc' = "push"
    /\ UNCHANGED <<envVars, tickVars, batchVars, fleetVars, clock, queueVars, histVars, waves, waveIdx, sleepUntil, exhausted,
                   lockHolder, accepted, callVars, pushLog>>

\* push_service.broadcast_offer(wave_driver_ids, job); time.sleep(wave_timeout_seconds)
LoopBroadcast ==
    /\ loopPc = "push"
    /\ pushLog' = Append(pushLog, [op |-> "offer", drivers |-> waves[waveIdx],
                                   wave |-> waveIdx, by |-> 0, at |-> clock])
    /\ sleepUntil' = clock + WaveTimeout
    /\ loopPc' = "sleep"
    /\ UNCHANGED <<envVars, tickVars, batchVars, fleetVars, clock, queueVars, histVars, waves, waveIdx, exhausted, lockVars, callVars>>

\* LoopWake with a sleep that returns at once
LoopWake_NoWait ==
    /\ loopPc = "sleep"
    /\ loopPc' = "check"
    /\ UNCHANGED <<envVars, tickVars, batchVars, fleetVars, clock, queueVars, histVars, waves, waveIdx, sleepUntil, exhausted,
                   lockVars, callVars, pushLog>>

\* time.sleep returns once the timeout has passed
LoopWake ==
    /\ loopPc = "sleep"
    /\ clock >= sleepUntil
    /\ loopPc' = "check"
    /\ UNCHANGED <<envVars, tickVars, batchVars, fleetVars, clock, queueVars, histVars, waves, waveIdx, sleepUntil, exhausted,
                   lockVars, callVars, pushLog>>

\* if db_lock_manager.is_job_accepted(job.id): return
LoopCheckAccepted ==
    /\ loopPc = "check"
    /\ loopPc' = IF IsJobAccepted THEN "done" ELSE "revoke"
    /\ UNCHANGED <<envVars, tickVars, batchVars, fleetVars, clock, queueVars, histVars, waves, waveIdx, sleepUntil, exhausted,
                   lockVars, callVars, pushLog>>

\* LoopRevoke without the call of revoke_offer
LoopRevoke_Silent ==
    /\ loopPc = "revoke"
    /\ loopPc' = "next"
    /\ UNCHANGED <<envVars, tickVars, batchVars, fleetVars, clock, queueVars, histVars, waves, waveIdx, sleepUntil, exhausted,
                   lockVars, callVars, pushLog>>

\* push_service.revoke_offer(wave_driver_ids, job.id)
LoopRevoke ==
    /\ loopPc = "revoke"
    /\ pushLog' = Append(pushLog, [op |-> "revoke", drivers |-> waves[waveIdx],
                                   wave |-> waveIdx, by |-> 0])
    /\ loopPc' = "next"
    /\ UNCHANGED <<envVars, tickVars, batchVars, fleetVars, clock, queueVars, histVars, waves, waveIdx, sleepUntil, exhausted,
                   lockVars, callVars>>

-----------------------------------------------------------------------------
(* Dispatcher.resolve_driver_acceptance *)

\* a device calls resolve_driver_acceptance(job_id, driver_id) and enters
\* with self.db_lock_manager.lock(f"job_{job_id}"): once the lock is free
ResolveEnter(r, driver_id) ==
    /\ rpc[r] = "idle"
    /\ IF r = 1 THEN TRUE ELSE rpc[r - 1] # "idle"
    /\ LockFree
    /\ lockHolder' = r
    /\ rpc' = [rpc EXCEPT ![r] = "check"]
    /\ rdrv' = [rdrv EXCEPT ![r] = driver_id]
    /\ UNCHANGED <<envVars, tickVars, batchVars, fleetVars, clock, queueVars, histVars, loopVars, accepted, activeOffer,
                   rseen, rret, pushLog>>

\* ResolveCheck without the is_job_accepted test
ResolveCheck_NoAcceptedTest(r) ==
    /\ rpc[r] = "check"
    /\ rpc' = [rpc EXCEPT ![r] = "mark"]
    /\ UNCHANGED <<rret, lockHolder>>
    /\ UNCHANGED <<envVars, tickVars, batchVars, fleetVars, clock, queueVars, histVars, loopVars, accepted, activeOffer,
                   rdrv, rseen, pushLog>>

\* if self.db_lock_manager.is_job_accepted(job_id): return False
ResolveCheck(r) ==
    /\ rpc[r] = "check"
    /\ IF IsJobAccepted
       THEN /\ rpc' = [rpc EXCEPT ![r] = "ret"]
            /\ rret' = [rret EXCEPT ![r] = "false"]
            /\ lockHolder' = IF lockHolder = r THEN 0 ELSE lockHolder
       ELSE /\ rpc' = [rpc EXCEPT ![r] = "mark"]
            /\ UNCHANGED <<rret, lockHolder>>
    /\ UNCHANGED <<envVars, tickVars, batchVars, fleetVars, clock, queueVars, histVars, loopVars, accepted, activeOffer,
                   rdrv, rseen, pushLog>>

\* self.db_lock_manager.mark_job_accepted(job_id, driver_id)
ResolveMark(r) ==
    /\ rpc[r] = "mark"
    /\ accepted' = rdrv[r]
    /\ rpc' = [rpc EXCEPT ![r] = "get"]
    /\ UNCHANGED <<envVars, tickVars, batchVars, fleetVars, clock, queueVars, histVars, loopVars, lockHolder, activeOffer,
                   rdrv, rseen, rret, pushLog>>

\* active_wave_driver_ids = self.db_lock_manager.get_active_offer_drivers(job_id)
ResolveGetActive(r) ==
    /\ rpc[r] = "get"
    /\ rseen' = [rseen EXCEPT ![r] = GetActiveOfferDrivers]
    /\ rpc' = [rpc EXCEPT ![r] = "revoke"]
    /\ UNCHANGED <<envVars, tickVars, batchVars, fleetVars, clock, queueVars, histVars, loopVars, lockVars, rdrv, rret, pushLog>>

\* OtherDrivers without the filter on driver_id
OtherDrivers_WinnerKept(active_wave_driver_ids, driver_id) ==
    active_wave_driver_ids

\* other_drivers = [d for d in active_wave_driver_ids if d != driver_id]
OtherDrivers(active_wave_driver_ids, driver_id) ==
    SelectSeq(active_wave_driver_ids, LAMBDA other : other # driver_id)

\* self.push_service.revoke_offer(other_drivers, job_id); return True
ResolveRevoke(r) ==
    /\ rpc[r] = "revoke"
    /\ pushLog' = Append(pushLog, [op |-> "revoke", drivers |-> OtherDrivers(rseen[r], rdrv[r]),
                                   wave |-> 0, by |-> r])
    /\ rpc' = [rpc EXCEPT ![r] = "ret"]
    /\ rret' = [rret EXCEPT ![r] = "true"]
    /\ lockHolder' = IF lockHolder = r THEN 0 ELSE lockHolder
    /\ UNCHANGED <<envVars, tickVars, batchVars, fleetVars, clock, queueVars, histVars, loopVars, accepted, activeOffer, rdrv, rseen>>

-----------------------------------------------------------------------------
(* The clock, and a customer cancelling the dispatched job's order.  The   *)
(* wait of a wave is the loop's only suspension point: time passes there.  *)

Tick ==
    /\ loopPc = "sleep"
    /\ clock < MaxClock
    /\ clock' = clock + 1
    /\ UNCHANGED <<envVars, tickVars, batchVars, fleetVars, queueVars, histVars, loopVars, lockVars, callVars, pushLog>>

CancelDispatched ==
    /\ \E o \in Range(DispatchedJob.order_ids) :
          /\ orders[o] # "CANCELLED"
          /\ EvictCancelled(o)
    /\ UNCHANGED <<envVars, tickVars, batchVars, fleetVars, clock, loopVars, lockVars, callVars, pushLog>>

-----------------------------------------------------------------------------
(* The dispatch of one job popped from READY *)

DispatchInit ==
    /\ catalog = CatalogSameRoute
    /\ policy = ChainingPolicy
    /\ clock = 0
    /\ orders = [o \in OrderIds |->
                    IF o \in Range(DispatchedJob.order_ids) THEN "READY" ELSE "ABSENT"]
    /\ raw_ids = <<>>
    /\ batching_ids = <<>>
    /\ ready_jobs = <<>>
    /\ entered_raw_at = [o \in OrderIds |-> NoTime]
    /\ entered_batching_at = [o \in OrderIds |-> NoTime]
    /\ committed = [o \in OrderIds |-> CountIn(DispatchedJob.order_ids, o)]
    /\ lastOp = NoOp
    /\ waves \in WaveConfigs
    /\ loopPc = "next"
    /\ waveIdx = 0
    /\ sleepUntil = 0
    /\ exhausted = FALSE
    /\ lockHolder = 0
    /\ accepted = NoDriver
    /\ activeOffer = NoOffer
    /\ rpc = [r \in Calls |-> "idle"]
    /\ rdrv = [r \in Calls |-> NoDriver]
    /\ rseen = [r \in Calls |-> <<>>]
    /\ rret = [r \in Calls |-> "none"]
    /\ pushLog = <<>>
    /\ tickPc = "idle"
    /\ tickSnapshot = <<>>
    /\ tickAt = 0
    /\ batchPool = <<>>
    /\ batchAges = NoAges
    /\ batchNear = FALSE
    /\ batchResult = NoResult
    /\ FleetIdle

DispatchNext ==
    \/ LoopNext
    \/ LoopSetActiveOffer
    \/ LoopBroadcast
    \/ LoopWake
    \/ LoopCheckAccepted
    \/ LoopRevoke
    \/ \E r \in Calls, d \in DriverIds : ResolveEnter(r, d)
    \/ \E r \in Calls : ResolveCheck(r)
    \/ \E r \in Calls : ResolveMark(r)
    \/ \E r \in Calls : ResolveGetActive(r)
    \/ \E r \in Calls : ResolveRevoke(r)
    \/ Tick
    \/ CancelDispatched

SpecDispatch == DispatchInit /\ [][DispatchNext]_vars

-----------------------------------------------------------------------------
(* Properties of the dispatcher *)

Offers == SelectSeq(pushLog, LAMBDA e : e.op = "offer")

Winners == {r \in Calls : rret[r] = "true"}

\* the wave build_driver_waves put a driver in, 0 if none
WaveOf(d) == IF \E w \in 1..5 : d \in Range(waves[w])
             THEN CHOOSE w \in 1..5 : d \in Range(waves[w])
             ELSE 0

\* an accept by a driver who was in the active offer the call read
AcceptedFromOffer(r) == rret[r] = "true" /\ rdrv[r] \in Range(rseen[r])

JobCancelled == \E o \in Range(DispatchedJob.order_ids) : orders[o] = "CANCELLED"

\* C1: single winner.  Over every interleaving of resolve_driver_acceptance
\* calls with each other and with the wave loop, at most one call returns
\* true, and once the acceptance table names a winner it names the same
\* winner ever after.
C1_SingleWinner ==
    [][ /\ Cardinality({r \in Calls : rret'[r] = "true"}) <= 1
        /\ (accepted # NoDriver => accepted' = accepted) ]_vars

\* C1 witness: two calls have returned, one with true and one with false.
C1_Witness ==
    \E r1, r2 \in Calls : rret[r1] = "true" /\ rret[r2] = "false" /\ rdrv[r1] # rdrv[r2]

\* C2: once a call has returned true for a driver of the active offer, the
\* loop records no further active offer and broadcasts to no wave later than
\* the winner's.
C2_NoWaveAfterAccept ==
    [][ \A r \in Calls : AcceptedFromOffer(r) =>
          /\ activeOffer' = activeOffer
          /\ (pushLog' # pushLog =>
                ~ ( /\ pushLog'[Len(pushLog')].op = "offer"
                    /\ pushLog'[Len(pushLog')].wave > WaveOf(rdrv[r]) )) ]_vars

\* C3: a call whose driver is not in the active offer it reads returns false
\* (so every call that returned true was made by a driver of that offer).
C3_StaleAcceptRejected ==
    \A r \in Calls : rret[r] = "true" => rdrv[r] \in Range(rseen[r])

\* C4: the offers broadcast for a job are in strictly increasing wave order,
\* and each is broadcast no sooner than wave_timeout_seconds after the
\* offer before it.
C4_WaveSpacing ==
    \A i, j \in DOMAIN Offers :
        i < j => /\ Offers[i].wave < Offers[j].wave
                 /\ Offers[j].wave <= 5
                 /\ Offers[j].at >= Offers[i].at + WaveTimeout

\* C4 witness: a third wave was broadcast after two waves timed out.
C4_Witness == Len(Offers) >= 3

\* C5: a call that returned true sent one revocation, to exactly the drivers
\* of the active offer it read under the lock other than its own driver.
C5_LosersRevoked ==
    /\ \A i \in DOMAIN pushLog :
          pushLog[i].by # 0 =>
              /\ pushLog[i].op = "revoke"
              /\ rret[pushLog[i].by] = "true"
              /\ Range(pushLog[i].drivers) = Range(rseen[pushLog[i].by]) \ {rdrv[pushLog[i].by]}
    /\ \A r \in Calls :
          rret[r] = "true" => Cardinality({i \in DOMAIN pushLog : pushLog[i].by = r}) = 1
    /\ \A r \in Calls :
          rpc[r] = "revoke" => rseen[r] \in {activeOffer.drivers} \cup Range(waves)

\* C5 witness: wave {A, B, C} is the active offer and one of the three won;
\* the other two were sent the revocation.
C5_Witness ==
    \E r \in Calls, i \in DOMAIN pushLog :
        /\ rret[r] = "true"
        /\ Len(rseen[r]) = 3
        /\ rdrv[r] \in Range(rseen[r])
        /\ pushLog[i].by = r
        /\ Cardinality(Range(pushLog[i].drivers)) = 2

\* C6: when the loop has ended, exactly one of the two outcomes holds: the
\* job is accepted, or the waves were exhausted and the failure reported.
\* (Stated for the runs in which the accepted driver, if any, is a driver of
\* the recorded active offer.)
C6_ExactlyOneOutcome ==
    (loopPc = "done" /\ (IsJobAccepted => accepted \in Range(activeOffer.drivers)))
        => (IsJobAccepted /\ ~exhausted) \/ (~IsJobAccepted /\ exhausted)

\* C7: once an order of the dispatched, not yet accepted job is cancelled
\* and a wave has been broadcast, the loop starts no further wave.
C7_CancelDropsJob ==
    [][ (JobCancelled /\ ~IsJobAccepted /\ Len(Offers) > 0)
            => ~(loopPc = "next" /\ loopPc' = "offer") ]_vars

-----------------------------------------------------------------------------
(* The queue under its callers: the API handlers (enqueue, cancel), the    *)
(* batching tick (run_cycle, or its two halves called one after the other) *)
(* and the dispatcher feed (pop).  No job is being dispatched.             *)

HorizonChoices == {0, 1}
RawAgeChoices == {NoneValue, 1}
LimitChoices == {NoneValue, 1}
PopChoices == {-1, 0, 1, 2}

DispatcherIdle == UNCHANGED <<envVars, tickVars, batchVars, fleetVars, clock, loopVars, lockVars, callVars, pushLog>>

QueueTick ==
    /\ clock < QueueMaxClock
    /\ clock' = clock + 1
    /\ UNCHANGED <<envVars, tickVars, batchVars, fleetVars, queueVars, histVars, loopVars, lockVars, callVars, pushLog>>

\* a job over orders of the pool, as the engine builds one
BundleJob(bundle) ==
    IF Len(bundle) = 1 THEN SingleJob(bundle[1], catalog)
    ELSE [job_type |-> "BATCH_2", order_ids |-> bundle,
          stops |-> EvaluateBundleFeasibility(bundle, catalog).best_stops]

\* job lists a caller may pass to finalize_orders_as_ready_jobs: every job's
\* orders are currently in BATCHING
PoolBundles ==
    {<<a>> : a \in Range(batching_ids)}
        \cup {p \in Range(batching_ids) \X Range(batching_ids) : p[1] # p[2]}

CommitInputs ==
    UNION {[1..n -> {BundleJob(b) : b \in PoolBundles}] : n \in 1..MaxCommitJobs}

QueueInit ==
    /\ \E scenario \in Scenarios : catalog = scenario[1] /\ policy = scenario[2]
    /\ clock = 0
    /\ orders = [o \in OrderIds |-> "ABSENT"]
    /\ raw_ids = <<>>
    /\ batching_ids = <<>>
    /\ ready_jobs = <<>>
    /\ entered_raw_at = [o \in OrderIds |-> NoTime]
    /\ entered_batching_at = [o \in OrderIds |-> NoTime]
    /\ committed = [o \in OrderIds |-> 0]
    /\ lastOp = NoOp
    /\ waves = <<<<>>, <<>>, <<>>, <<>>, <<>>>>
    /\ loopPc = "done"
    /\ waveIdx = 0
    /\ sleepUntil = 0
    /\ exhausted = FALSE
    /\ lockHolder = 0
    /\ accepted = NoDriver
    /\ activeOffer = NoOffer
    /\ rpc = [r \in Calls |-> "idle"]
    /\ rdrv = [r \in Calls |-> NoDriver]
    /\ rseen = [r \in Calls |-> <<>>]
    /\ rret = [r \in Calls |-> "none"]
    /\ pushLog = <<>>
    /\ tickPc = "idle"
    /\ tickSnapshot = <<>>
    /\ tickAt = 0
    /\ batchPool = <<>>
    /\ batchAges = NoAges
    /\ batchNear = FALSE
    /\ batchResult = NoResult
    /\ FleetIdle

CycleNext ==
    \/ \E o \in OrderIds : EnqueueRaw(o) /\ DispatcherIdle
    \/ \E h \in HorizonChoices, a \in RawAgeChoices, l \in LimitChoices :
          MoveRawToBatching(h, a, l) /\ DispatcherIdle
    \/ \E ages \in {NoAges} \cup {CycleAges(QueueState, clock)} :
          CommitBatchResult(ages) /\ DispatcherIdle
    \/ RunCycle /\ DispatcherIdle
    \/ \E o \in OrderIds : EvictCancelled(o) /\ DispatcherIdle
    \/ QueueTick

\* enqueue, cancel and batching cycles
SpecCycle == QueueInit /\ [][CycleNext]_vars

-----------------------------------------------------------------------------
(* Batching ticks repeated over orders that arrived at clock 0 *)

\* the default policy without age tie-breaks, and with a cluster of one order
UnagedPolicy == [ChainingPolicy EXCEPT !.prefer_older_orders = FALSE]
CappedPolicy == [ChainingPolicy EXCEPT !.max_cluster_candidates = 1]

HorizonPolicies == {ChainingPolicy, UnagedPolicy, CappedPolicy, GroupingPolicy, ApartPolicy}

HorizonInit ==
    /\ catalog \in {CatalogSameRoute, CatalogApart}
    /\ policy \in HorizonPolicies
    /\ clock = 0
    /\ raw_ids \in {<<"o1">>, <<"o2">>, <<"o1", "o2">>, <<"o3", "o1">>, <<"o1", "o2", "o3">>,
                     <<"o3", "o2", "o1">>}
    /\ orders = [o \in OrderIds |-> IF o \in Range(raw_ids) THEN "RAW" ELSE "ABSENT"]
    /\ batching_ids = <<>>
    /\ ready_jobs = <<>>
    /\ entered_raw_at = [o \in OrderIds |-> IF o \in Range(raw_ids) THEN 0 ELSE NoTime]
    /\ entered_batching_at = [o \in OrderIds |-> NoTime]
    /\ committed = [o \in OrderIds |-> 0]
    /\ lastOp = NoOp
    /\ waves = <<<<>>, <<>>, <<>>, <<>>, <<>>>>
    /\ loopPc = "done"
    /\ waveIdx = 0
    /\ sleepUntil = 0
    /\ exhausted = FALSE
    /\ lockHolder = 0
    /\ accepted = NoDriver
    /\ activeOffer = NoOffer
    /\ rpc = [r \in Calls |-> "idle"]
    /\ rdrv = [r \in Calls |-> NoDriver]
    /\ rseen = [r \in Calls |-> <<>>]
    /\ rret = [r \in Calls |-> "none"]
    /\ pushLog = <<>>
    /\ tickPc = "idle"
    /\ tickSnapshot = <<>>
    /\ tickAt = 0
    /\ batchPool = <<>>
    /\ batchAges = NoAges
    /\ batchNear = FALSE
    /\ batchResult = NoResult
    /\ FleetIdle

\* the heartbeat: run_cycle called with the time of the clock
HorizonCycle == RunCycle /\ DispatcherIdle

\* time passes between two ticks
HorizonTick ==
    /\ clock < HorizonMaxClock
    /\ clock' = clock + 1
    /\ UNCHANGED <<envVars, tickVars, batchVars, fleetVars, queueVars, histVars, loopVars, lockVars, callVars, pushLog>>

HorizonNext ==
    \/ HorizonCycle
    \/ HorizonTick

\* the heartbeat keeps running and time keeps passing
SpecHorizon ==
    HorizonInit /\ [][HorizonNext]_vars /\ WF_vars(HorizonCycle) /\ WF_vars(HorizonTick)

\* the orders the direct callers work with
DirectOrderIds == {"o1", "o2"}

QueueNext ==
    \/ \E o \in DirectOrderIds : EnqueueRaw(o) /\ DispatcherIdle
    \/ \E h \in HorizonChoices, a \in RawAgeChoices, l \in LimitChoices :
          MoveRawToBatching(h, a, l) /\ DispatcherIdle
    \/ \E jobs \in CommitInputs : FinalizeOrdersAsReadyJobs(jobs) /\ DispatcherIdle
    \/ \E n \in PopChoices : PopReadyJobs(n) /\ DispatcherIdle
    \/ \E o \in DirectOrderIds : EvictCancelled(o) /\ DispatcherIdle
    \/ QueueTick

\* the five operations of the queue, called in any order
SpecQueue == QueueInit /\ [][QueueNext]_vars

-----------------------------------------------------------------------------
(* dispatch/state_machines/order_state.py: the transitions the runtime     *)
(* applies to the Order objects of a job it has popped from READY.  The    *)
(* objects are the ones the queue holds in _orders.                        *)

\* the loop of transition_orders_to_assigned from position `at` on: an order
\* that is not READY raises OrderStateException, the orders before it stay ASSIGNED
RECURSIVE AssignLoop(_, _, _)
AssignLoop(order_ids, at, st) ==
    IF at > Len(order_ids) THEN [orders |-> st, raised |-> FALSE]
    ELSE IF st[order_ids[at]] # "READY" THEN [orders |-> st, raised |-> TRUE]
    ELSE With([st EXCEPT ![order_ids[at]] = "ASSIGNED"], LAMBDA st_next :
             AssignLoop(order_ids, at + 1, st_next))

\* transition_orders_to_assigned
TransitionOrdersToAssigned(order_ids) ==
    \E done \in {AssignLoop(order_ids, 1, orders)} :
        /\ lastOp' = [op |-> "assign", raised |-> done.raised]
        /\ orders' = done.orders
        /\ UNCHANGED <<raw_ids, batching_ids, ready_jobs, entered_raw_at,
                       entered_batching_at, committed>>

\* break_down_job_to_raw
BreakDownJobToRaw(order_ids) ==
    /\ lastOp' = [op |-> "shatter"]
    /\ orders' = [o \in OrderIds |-> IF o \in Range(order_ids) THEN "RAW" ELSE orders[o]]
    /\ UNCHANGED <<raw_ids, batching_ids, ready_jobs, entered_raw_at,
                   entered_batching_at, committed>>

\* dispatch/state_machines/driver_state.py.  handle_driver_acceptance: the
\* new Driver it returns, or the DriverStateException it raises
HandleDriverAcceptance_NoCheck(driver, job_size, enable_continuous_chaining) ==
    With(driver.max_capacity - job_size, LAMBDA new_capacity :
        [raised |-> FALSE,
         driver |-> [driver EXCEPT
                        !.max_capacity = new_capacity,
                        !.status = IF new_capacity > 0 /\ enable_continuous_chaining
                                   THEN "transittoCollect"
                                   ELSE IF new_capacity = 0 THEN "transittoCollect"
                                   ELSE driver.status]])

HandleDriverAcceptance(driver, job_size, enable_continuous_chaining) ==
    IF driver.max_capacity < job_size THEN [raised |-> TRUE, driver |-> driver]
    ELSE With(driver.max_capacity - job_size, LAMBDA new_capacity :
             [raised |-> FALSE,
              driver |-> [driver EXCEPT
                             !.max_capacity = new_capacity,
                             !.status = IF new_capacity > 0 /\ enable_continuous_chaining
                                        THEN "transittoCollect"
                                        ELSE IF new_capacity = 0 THEN "transittoCollect"
                                        ELSE driver.status]])

\* handle_driver_cancellation
HandleDriverCancellation(driver) == [driver EXCEPT !.status = "offline"]

\* the runtime's frame: what neither the queue nor the driver's record is
RuntimeIdle ==
    UNCHANGED <<envVars, tickVars, batchVars, waveVars, oracleVars, dpolVars, feasVars, clock,
                loopVars,
                lockVars, callVars, pushLog>>

\* a driver's accept of a popped job: the Driver returned replaces the one held
DriverAcceptance(order_ids, enable_continuous_chaining) ==
    \E res \in {HandleDriverAcceptance(drv, Len(order_ids), enable_continuous_chaining)} :
        /\ lastOp' = [op |-> "accept", raised |-> res.raised]
        /\ drv' = res.driver
        /\ drvJob' = IF res.raised THEN drvJob ELSE order_ids
        /\ UNCHANGED <<queueVars, committed>>
        /\ RuntimeIdle

\* the driver withdraws from the job held, or breaks down: the driver's
\* record by handle_driver_cancellation, the job's orders by
\* break_down_job_to_raw, and each of them handed to enqueue_raw
DriverCancellation ==
    /\ drvJob # <<>>
    /\ lastOp' = [op |-> "withdraw"]
    /\ drv' = HandleDriverCancellation(drv)
    /\ drvJob' = <<>>
    /\ orders' = [o \in OrderIds |-> IF o \in Range(drvJob) THEN "RAW" ELSE orders[o]]
    /\ raw_ids' = raw_ids \o SelectSeq(drvJob, LAMBDA o : ~IsKnown(o))
    /\ entered_raw_at' = [o \in OrderIds |->
                             IF o \in Range(drvJob) /\ ~IsKnown(o) THEN clock
                             ELSE entered_raw_at[o]]
    /\ UNCHANGED <<batching_ids, ready_jobs, entered_batching_at, committed>>
    /\ RuntimeIdle

\* the order lists of jobs the runtime holds: committed to READY and popped
PoppedOrderIds ==
    {o \in DirectOrderIds : committed[o] > 0 /\ CountInJobs(ready_jobs, o) = 0}

PoppedBundles ==
    {<<a>> : a \in PoppedOrderIds}
        \cup {p \in PoppedOrderIds \X PoppedOrderIds : p[1] # p[2]}

LifecycleNext ==
    \/ \E o \in DirectOrderIds : EnqueueRaw(o) /\ DispatcherIdle
    \/ \E h \in HorizonChoices, a \in RawAgeChoices, l \in LimitChoices :
          MoveRawToBatching(h, a, l) /\ DispatcherIdle
    \/ \E jobs \in CommitInputs : FinalizeOrdersAsReadyJobs(jobs) /\ DispatcherIdle
    \/ \E n \in PopChoices : PopReadyJobs(n) /\ DispatcherIdle
    \/ \E o \in DirectOrderIds : EvictCancelled(o) /\ DispatcherIdle
    \/ \E b \in PoppedBundles : TransitionOrdersToAssigned(b) /\ DispatcherIdle
    \/ \E b \in PoppedBundles : BreakDownJobToRaw(b) /\ DispatcherIdle
    \/ \E b \in PoppedBundles, chaining \in BOOLEAN : DriverAcceptance(b, chaining)
    \/ DriverCancellation

\* an order's whole life: the queue's operations and the runtime's transitions
SpecLifecycle == QueueInit /\ [][LifecycleNext]_vars

-----------------------------------------------------------------------------
(* The queue under a batching tick and API handlers that run in parallel.  *)
(* OrdersQueue holds no lock, so a handler's call can run between any two  *)
(* statements of the tick's move_raw_to_batching (queue.py:134-171).  The  *)
(* tick calls it as run_cycle does: no horizon, no limit reached.          *)

TickIdle == UNCHANGED <<envVars, batchVars, fleetVars, clock, loopVars, lockVars, callVars, pushLog>>

\* lines 134-138: the call starts and copies _raw_ids
TickSnapshot ==
    /\ tickPc \in {"idle", "done", "failed"}
    /\ tickPc' = "loop"
    /\ tickSnapshot' = raw_ids
    /\ tickAt' = 1
    /\ UNCHANGED <<queueVars, histVars>>

\* lines 139-147: the next order_id of the snapshot and the test of its status
TickLoop ==
    /\ tickPc = "loop"
    /\ IF tickAt > Len(tickSnapshot)
       THEN /\ tickPc' = "done"
            /\ lastOp' = [op |-> "advance", raised |-> FALSE]
       ELSE /\ tickPc' = IF orders[tickSnapshot[tickAt]] # "RAW" THEN "drop" ELSE "remove"
            /\ UNCHANGED lastOp
    /\ UNCHANGED <<queueVars, committed, tickSnapshot, tickAt>>

\* line 146, and line 165: self._raw_ids.remove(order_id), a ValueError if
\* the id is not in the list
TickRemove ==
    /\ tickPc \in {"drop", "remove"}
    /\ IF tickSnapshot[tickAt] \in Range(raw_ids)
       THEN /\ raw_ids' = RemoveFirst(raw_ids, tickSnapshot[tickAt])
            /\ tickPc' = IF tickPc = "drop" THEN "loop" ELSE "append"
            /\ tickAt' = IF tickPc = "drop" THEN tickAt + 1 ELSE tickAt
            /\ UNCHANGED lastOp
       ELSE /\ tickPc' = "failed"
            /\ lastOp' = [op |-> "advance", raised |-> TRUE]
            /\ UNCHANGED <<raw_ids, tickAt>>
    /\ UNCHANGED <<orders, batching_ids, ready_jobs, entered_raw_at, entered_batching_at,
                   committed, tickSnapshot>>

\* line 166
TickAppend ==
    /\ tickPc = "append"
    /\ batching_ids' = Append(batching_ids, tickSnapshot[tickAt])
    /\ tickPc' = "status"
    /\ UNCHANGED <<orders, raw_ids, ready_jobs, entered_raw_at, entered_batching_at,
                   histVars, tickSnapshot, tickAt>>

\* line 167: the status is written to the Order object read at line 143
TickStatus ==
    /\ tickPc = "status"
    /\ orders' = [orders EXCEPT ![tickSnapshot[tickAt]] = "BATCHING"]
    /\ tickPc' = "stamp"
    /\ UNCHANGED <<raw_ids, batching_ids, ready_jobs, entered_raw_at, entered_batching_at,
                   histVars, tickSnapshot, tickAt>>

\* lines 168-169
TickStamp ==
    /\ tickPc = "stamp"
    /\ entered_batching_at' = [entered_batching_at EXCEPT ![tickSnapshot[tickAt]] = clock]
    /\ tickPc' = "loop"
    /\ tickAt' = tickAt + 1
    /\ UNCHANGED <<orders, raw_ids, batching_ids, ready_jobs, entered_raw_at,
                   histVars, tickSnapshot>>

ConcurrentNext ==
    \/ TickSnapshot /\ TickIdle
    \/ TickLoop /\ TickIdle
    \/ TickRemove /\ TickIdle
    \/ TickAppend /\ TickIdle
    \/ TickStatus /\ TickIdle
    \/ TickStamp /\ TickIdle
    \/ \E o \in OrderIds : EnqueueRaw(o) /\ DispatcherIdle
    \/ \E o \in OrderIds : EvictCancelled(o) /\ DispatcherIdle

\* the batching tick's advance running in parallel with enqueue and cancel handlers
SpecConcurrent == QueueInit /\ [][ConcurrentNext]_vars

-----------------------------------------------------------------------------
(* One call of batch_orders on a pool of distinct orders *)

AgeChoices == {0, 2, 3}

BatchPools == {<<>>} \cup CatalogBundles

BatchInit ==
    /\ catalog \in {CatalogSameRoute, CatalogApart, CatalogGap}
    /\ policy \in {ChainingPolicy, GroupingPolicy, NearPolicy, ApartPolicy, SoloPolicy,
                   AgedPolicy}
    /\ batchPool \in BatchPools
    /\ batchAges \in {NoAges} \cup [Range(batchPool) -> AgeChoices]
    /\ batchNear \in BOOLEAN
    /\ batchResult = NoResult
    /\ clock = 0
    /\ orders = [o \in OrderIds |-> IF o \in Range(batchPool) THEN "BATCHING" ELSE "ABSENT"]
    /\ raw_ids = <<>>
    /\ batching_ids = batchPool
    /\ ready_jobs = <<>>
    /\ entered_raw_at = [o \in OrderIds |-> IF o \in Range(batchPool) THEN 0 ELSE NoTime]
    /\ entered_batching_at = [o \in OrderIds |-> IF o \in Range(batchPool) THEN 0 ELSE NoTime]
    /\ committed = [o \in OrderIds |-> 0]
    /\ lastOp = NoOp
    /\ waves = <<<<>>, <<>>, <<>>, <<>>, <<>>>>
    /\ loopPc = "done"
    /\ waveIdx = 0
    /\ sleepUntil = 0
    /\ exhausted = FALSE
    /\ lockHolder = 0
    /\ accepted = NoDriver
    /\ activeOffer = NoOffer
    /\ rpc = [r \in Calls |-> "idle"]
    /\ rdrv = [r \in Calls |-> NoDriver]
    /\ rseen = [r \in Calls |-> <<>>]
    /\ rret = [r \in Calls |-> "none"]
    /\ pushLog = <<>>
    /\ tickPc = "idle"
    /\ tickSnapshot = <<>>
    /\ tickAt = 0
    /\ FleetIdle

\* BatchCall marking the orders of the emitted jobs READY by itself
BatchCall_Committing ==
    /\ ~batchResult.returned
    /\ batchResult' =
           IF ~PolicyValid(policy) THEN [returned |-> TRUE, raised |-> TRUE]
           ELSE [returned |-> TRUE,
                 raised |-> FALSE,
                 value |-> IF batchNear
                           THEN BatchOrdersNear(batchPool, policy, catalog, batchAges)
                           ELSE BatchOrders(batchPool, policy, catalog, batchAges)]
    /\ orders' = [o \in OrderIds |->
                     IF ~batchResult'.raised /\ o \in JobOrderIds(batchResult'.value.jobs)
                     THEN "READY" ELSE orders[o]]
    /\ UNCHANGED <<envVars, clock, raw_ids, batching_ids, ready_jobs, entered_raw_at,
                   entered_batching_at, histVars, loopVars, lockVars, callVars,
                   pushLog, tickVars, fleetVars, batchPool, batchAges, batchNear>>

\* batch_orders(orders, policy=..., order_age_seconds=...), with or without a
\* pickup_time_matrix_provider; it does not touch the queue
BatchCall ==
    /\ ~batchResult.returned
    /\ batchResult' =
           IF ~PolicyValid(policy) THEN [returned |-> TRUE, raised |-> TRUE]
           ELSE [returned |-> TRUE,
                 raised |-> FALSE,
                 value |-> IF batchNear
                           THEN BatchOrdersNear(batchPool, policy, catalog, batchAges)
                           ELSE BatchOrders(batchPool, policy, catalog, batchAges)]
    /\ UNCHANGED <<envVars, clock, queueVars, histVars, loopVars, lockVars, callVars,
                   pushLog, tickVars, fleetVars, batchPool, batchAges, batchNear>>

BatchNext == BatchCall

SpecBatch == BatchInit /\ [][BatchNext]_vars

\* batch_orders called with policies of all kinds, valid and not
PolicyChoices ==
    {[ChainingPolicy EXCEPT !.max_batch_size = size, !.pair_detour_cap = pair,
                            !.multi_detour_cap = multi, !.batching_soft_wait_sec = soft,
                            !.batching_hard_wait_sec = hard] :
        size \in {0, 1, 10}, pair \in {99, 115}, multi \in {99, 125},
        soft \in {-1, 0, 1, 4}, hard \in {-1, 0, 3}}

PolicyInit ==
    /\ catalog = CatalogSameRoute
    /\ policy \in PolicyChoices
    /\ batchPool \in {<<>>, <<"o1">>, <<"o1", "o2">>}
    /\ batchAges = [o \in Range(batchPool) |-> 3]
    /\ batchNear = FALSE
    /\ batchResult = NoResult
    /\ clock = 0
    /\ orders = [o \in OrderIds |-> IF o \in Range(batchPool) THEN "BATCHING" ELSE "ABSENT"]
    /\ raw_ids = <<>>
    /\ batching_ids = batchPool
    /\ ready_jobs = <<>>
    /\ entered_raw_at = [o \in OrderIds |-> IF o \in Range(batchPool) THEN 0 ELSE NoTime]
    /\ entered_batching_at = [o \in OrderIds |-> IF o \in Range(batchPool) THEN 0 ELSE NoTime]
    /\ committed = [o \in OrderIds |-> 0]
    /\ lastOp = NoOp
    /\ waves = <<<<>>, <<>>, <<>>, <<>>, <<>>>>
    /\ loopPc = "done"
    /\ waveIdx = 0
    /\ sleepUntil = 0
    /\ exhausted = FALSE
    /\ lockHolder = 0
    /\ accepted = NoDriver
    /\ activeOffer = NoOffer
    /\ rpc = [r \in Calls |-> "idle"]
    /\ rdrv = [r \in Calls |-> NoDriver]
    /\ rseen = [r \in Calls |-> <<>>]
    /\ rret = [r \in Calls |-> "none"]
    /\ pushLog = <<>>
    /\ tickPc = "idle"
    /\ tickSnapshot = <<>>
    /\ tickAt = 0
    /\ FleetIdle

SpecPolicy == PolicyInit /\ [][BatchNext]_vars

-----------------------------------------------------------------------------
(* One call of evaluate_bundle_feasibility, and one of batch_orders on the *)
(* three orders of the catalog                                             *)

FeasibilityBundles == {<<>>, <<"o1", "o2", "o3", "o1">>} \cup CatalogBundles

FeasibilityInit ==
    /\ catalog \in {CatalogSameRoute, CatalogApart, CatalogGap, CatalogOffroad}
    /\ policy \in {ChainingPolicy, GroupingPolicy}
    /\ batchPool \in {<<"o1", "o2", "o3">>, <<"o3", "o1", "o2">>}
    /\ batchAges = NoAges
    /\ batchNear = FALSE
    /\ batchResult = NoResult
    /\ clock = 0
    /\ orders = [o \in OrderIds |-> "BATCHING"]
    /\ raw_ids = <<>>
    /\ batching_ids = batchPool
    /\ ready_jobs = <<>>
    /\ entered_raw_at = [o \in OrderIds |-> 0]
    /\ entered_batching_at = [o \in OrderIds |-> 0]
    /\ committed = [o \in OrderIds |-> 0]
    /\ lastOp = NoOp
    /\ waves = <<<<>>, <<>>, <<>>, <<>>, <<>>>>
    /\ loopPc = "done"
    /\ waveIdx = 0
    /\ sleepUntil = 0
    /\ exhausted = FALSE
    /\ lockHolder = 0
    /\ accepted = NoDriver
    /\ activeOffer = NoOffer
    /\ rpc = [r \in Calls |-> "idle"]
    /\ rdrv = [r \in Calls |-> NoDriver]
    /\ rseen = [r \in Calls |-> <<>>]
    /\ rret = [r \in Calls |-> "none"]
    /\ pushLog = <<>>
    /\ tickPc = "idle"
    /\ tickSnapshot = <<>>
    /\ tickAt = 0
    /\ WavesIdle
    /\ OracleIdle
    /\ DriverIdle
    /\ DriverPolicyIdle
    /\ feasBundle \in FeasibilityBundles
    /\ feasResult = NoResult
    /\ clusterResult = NoResult

\* evaluate_bundle_feasibility(orders, time_matrix_provider)
FeasibilityCall ==
    /\ ~feasResult.returned
    /\ feasResult' = [returned |-> TRUE,
                      value |-> EvaluateBundleFeasibility(feasBundle, catalog)]
    /\ UNCHANGED <<envVars, clock, queueVars, histVars, loopVars, lockVars, callVars,
                   pushLog, tickVars, batchVars, waveVars, oracleVars, driverVars, dpolVars,
                   feasBundle, clusterResult>>

FeasibilityNext ==
    \/ FeasibilityCall
    \/ BatchCall

SpecFeasibility == FeasibilityInit /\ [][FeasibilityNext]_vars

-----------------------------------------------------------------------------
(* One call of build_clusters on a pool of distinct orders *)

\* policies whose max_cluster_candidates is below the size of the pools
CappedChaining == [ChainingPolicy EXCEPT !.max_cluster_candidates = 2]
CappedNear == [NearPolicy EXCEPT !.max_cluster_candidates = 2]

ClusterInit ==
    /\ catalog \in {CatalogSameRoute, CatalogApart, CatalogGap, CatalogOffroad}
    /\ policy \in {ChainingPolicy, CappedChaining, GroupingPolicy, NearPolicy, CappedNear,
                   ApartPolicy}
    /\ batchPool \in BatchPools
    /\ batchAges = NoAges
    /\ batchNear \in BOOLEAN
    /\ batchResult = NoResult
    /\ clock = 0
    /\ orders = [o \in OrderIds |-> IF o \in Range(batchPool) THEN "BATCHING" ELSE "ABSENT"]
    /\ raw_ids = <<>>
    /\ batching_ids = batchPool
    /\ ready_jobs = <<>>
    /\ entered_raw_at = [o \in OrderIds |-> IF o \in Range(batchPool) THEN 0 ELSE NoTime]
    /\ entered_batching_at = [o \in OrderIds |-> IF o \in Range(batchPool) THEN 0 ELSE NoTime]
    /\ committed = [o \in OrderIds |-> 0]
    /\ lastOp = NoOp
    /\ waves = <<<<>>, <<>>, <<>>, <<>>, <<>>>>
    /\ loopPc = "done"
    /\ waveIdx = 0
    /\ sleepUntil = 0
    /\ exhausted = FALSE
    /\ lockHolder = 0
    /\ accepted = NoDriver
    /\ activeOffer = NoOffer
    /\ rpc = [r \in Calls |-> "idle"]
    /\ rdrv = [r \in Calls |-> NoDriver]
    /\ rseen = [r \in Calls |-> <<>>]
    /\ rret = [r \in Calls |-> "none"]
    /\ pushLog = <<>>
    /\ tickPc = "idle"
    /\ tickSnapshot = <<>>
    /\ tickAt = 0
    /\ FleetIdle

ClusterCall ==
    /\ ~clusterResult.returned
    /\ clusterResult' =
           [returned |-> TRUE,
            value |-> IF batchNear THEN BuildClustersNear(batchPool, policy, catalog)
                      ELSE BuildClusters(batchPool, policy, catalog)]
    /\ UNCHANGED <<envVars, clock, queueVars, histVars, loopVars, lockVars, callVars,
                   pushLog, tickVars, batchVars, waveVars, oracleVars, driverVars, dpolVars,
                   feasBundle, feasResult>>

ClusterNext == ClusterCall

SpecClusters == ClusterInit /\ [][ClusterNext]_vars

-----------------------------------------------------------------------------
(* drivers/selection.py: wave construction.  A Driver is a record of its   *)
(* id, location, status and max_capacity; locations are points of the      *)
(* line, the radii in units of 1e-2 degree and the ETAs in minutes.        *)

WaveRadii == <<2, 4, 6, 8, 10>>
WaveEtas == <<3, 7, 10, 13, 16>>
WaveCap == 5

\* the table OSRM answers with: no route to or from a point cut off from
\* the road network (null), and the way down the line takes twice as long
Islands == {9}

Route(a, b) ==
    IF a # b /\ (a \in Islands \/ b \in Islands) THEN NoneValue
    ELSE IF a <= b THEN b - a
    ELSE 2 * (a - b)

\* the matrix a time_matrix_provider returns: a pair without route is inf
ProviderMatrix(coordinates) ==
    [i \in DOMAIN coordinates |->
        [j \in DOMAIN coordinates |->
            IF Route(coordinates[i], coordinates[j]) = NoneValue THEN Infinity
            ELSE Route(coordinates[i], coordinates[j])]]

FilterEligibleDrivers_AnyStatus(drivers, required_capacity) ==
    SelectSeq(drivers, LAMBDA d : ~(d.max_capacity < required_capacity))

FilterEligibleDrivers(drivers, required_capacity) ==
    SelectSeq(drivers, LAMBDA d : d.status = "available"
                                  /\ ~(d.max_capacity < required_capacity))

\* the chain of tests d <= thresholds[0], elif d <= thresholds[1], ...:
\* the wave a driver with metric d is appended to, 0 for none
WaveIndex_Strict(d, thresholds) ==
    IF \E n \in 1..5 : d < thresholds[n]
    THEN CHOOSE n \in 1..5 : d < thresholds[n] /\ \A m \in 1..(n - 1) : ~(d < thresholds[m])
    ELSE 0

WaveIndex(d, thresholds) ==
    IF \E n \in 1..5 : d <= thresholds[n]
    THEN CHOOSE n \in 1..5 : d <= thresholds[n] /\ \A m \in 1..(n - 1) : ~(d <= thresholds[m])
    ELSE 0

\* ((pickup_latitude - driver_latitude) ** 2 + ...) ** 0.5
DistanceDegrees(pickup_location, driver) == Abs(pickup_location - driver.location)

\* lines 59-71: times_matrix[driver_idx][0], the pickup first in all_coords
BucketEtas(pickup_location, eligible) ==
    With(ProviderMatrix(<<pickup_location>> \o [i \in DOMAIN eligible |-> eligible[i].location]),
         LAMBDA times_matrix : [i \in DOMAIN eligible |-> times_matrix[i + 1][1]])

\* line 87: time_matrix_provider([d.location, pickup_location])[0][1]
SortEta(pickup_location, driver) ==
    ProviderMatrix(<<driver.location, pickup_location>>)[1][2]

\* the positions of `eligible` whose metric falls in wave n, in list order
Bucket(eligible, metric, thresholds, n) ==
    SelectSeq([i \in DOMAIN eligible |-> i], LAMBDA i : WaveIndex(metric[i], thresholds) = n)

\* lines 85-89: each wave sorted by the provider's ETA, and returned
OracleWave(eligible, picked, pickup_location) ==
    StableSort([k \in DOMAIN picked |-> eligible[picked[k]]],
               [d \in {eligible[picked[k]] : k \in DOMAIN picked} |->
                   SortEta(pickup_location, d)])

FallbackWave_Unsorted(eligible, picked, pickup_location) ==
    SliceTo([k \in DOMAIN picked |-> eligible[picked[k]]], WaveCap)

\* lines 111-122: each wave sorted by distance, then cut to five drivers
FallbackWave(eligible, picked, pickup_location) ==
    SliceTo(StableSort([k \in DOMAIN picked |-> eligible[picked[k]]],
                       [d \in {eligible[picked[k]] : k \in DOMAIN picked} |->
                           DistanceDegrees(pickup_location, d)]), WaveCap)

WavesOf(eligible, pickup_location, oracle, pol) ==
    IF oracle
    THEN With(BucketEtas(pickup_location, eligible), LAMBDA metric :
             [n \in 1..5 |->
                 OracleWave(eligible, Bucket(eligible, metric, pol.wave_eta_seconds, n),
                            pickup_location)])
    ELSE With([i \in DOMAIN eligible |-> DistanceDegrees(pickup_location, eligible[i])],
              LAMBDA metric :
             [n \in 1..5 |->
                 FallbackWave(eligible, Bucket(eligible, metric, pol.wave_radii_degrees, n),
                              pickup_location)])

BuildDriverWaves(pickup_location, drivers, required_capacity, oracle, pol) ==
    With(FilterEligibleDrivers(drivers, required_capacity), LAMBDA eligible :
        IF eligible = <<>> THEN <<<<>>, <<>>, <<>>, <<>>, <<>>>>
        ELSE WavesOf(eligible, pickup_location, oracle, pol))

\* the chain of tests reads thresholds[n] for each n up to the first that
\* holds: a list that ends before one holds gives an IndexError
ThresholdsRunOut(eligible, pickup_location, oracle, pol) ==
    With(IF oracle THEN pol.wave_eta_seconds ELSE pol.wave_radii_degrees, LAMBDA thresholds :
        /\ Len(thresholds) < 5
        /\ \E i \in DOMAIN eligible :
              \A m \in DOMAIN thresholds :
                  ~((IF oracle THEN SortEta(pickup_location, eligible[i])
                     ELSE DistanceDegrees(pickup_location, eligible[i])) <= thresholds[m]))

\* The fleets of the runs explored.  Driver(id, location, status, capacity):
Driver(id, location, status, max_capacity) ==
    [id |-> id, location |-> location, status |-> status, max_capacity |-> max_capacity]

\* a crowd around the pickup, more than a wave holds
FleetCrowd ==
    <<Driver("D1", 0, "available", 3), Driver("D2", -1, "available", 3),
      Driver("D3", -2, "available", 3), Driver("D4", -1, "available", 2),
      Driver("D5", 2, "available", 3), Driver("D6", -3, "available", 3),
      Driver("D7", 1, "available", 3), Driver("D8", -2, "available", 3)>>

\* drivers on the thresholds, between them and beyond the last, one cut
\* off from the roads, one offline and one without room
FleetSpread ==
    <<Driver("D1", 4, "available", 3), Driver("D2", 10, "available", 3),
      Driver("D3", -7, "available", 3), Driver("D4", 1, "offline", 3),
      Driver("D5", 2, "available", 1), Driver("D6", 9, "available", 3),
      Driver("D7", -16, "available", 3), Driver("D8", 11, "transittoCollect", 3)>>

FleetOffline ==
    <<Driver("D1", 0, "offline", 3), Driver("D2", 1, "paused", 3),
      Driver("D3", 2, "unregistered", 3)>>

Reverse(s) == [i \in DOMAIN s |-> s[Len(s) + 1 - i]]
Rotate(s, k) == [i \in DOMAIN s |-> s[((i + k - 1) % Len(s)) + 1]]

\* a fleet in several orders, whole or in part
Arrangements(fleet) ==
    UNION {{SliceTo(Rotate(fleet, k), n), SliceTo(Reverse(Rotate(fleet, k)), n)} :
              k \in 0..(Len(fleet) - 1), n \in 0..Len(fleet)}

DriverLists == Arrangements(FleetCrowd) \cup Arrangements(FleetSpread)
                   \cup Arrangements(FleetOffline)

\* every other part of the system at rest
RestIdle ==
    /\ catalog = CatalogSameRoute
    /\ policy = ChainingPolicy
    /\ clock = 0
    /\ orders = [o \in OrderIds |-> "ABSENT"]
    /\ raw_ids = <<>>
    /\ batching_ids = <<>>
    /\ ready_jobs = <<>>
    /\ entered_raw_at = [o \in OrderIds |-> NoTime]
    /\ entered_batching_at = [o \in OrderIds |-> NoTime]
    /\ committed = [o \in OrderIds |-> 0]
    /\ lastOp = NoOp
    /\ waves = <<<<>>, <<>>, <<>>, <<>>, <<>>>>
    /\ loopPc = "done"
    /\ waveIdx = 0
    /\ sleepUntil = 0
    /\ exhausted = FALSE
    /\ lockHolder = 0
    /\ accepted = NoDriver
    /\ activeOffer = NoOffer
    /\ rpc = [r \in Calls |-> "idle"]
    /\ rdrv = [r \in Calls |-> NoDriver]
    /\ rseen = [r \in Calls |-> <<>>]
    /\ rret = [r \in Calls |-> "none"]
    /\ pushLog = <<>>
    /\ tickPc = "idle"
    /\ tickSnapshot = <<>>
    /\ tickAt = 0
    /\ batchPool = <<>>
    /\ batchAges = NoAges
    /\ batchNear = FALSE
    /\ batchResult = NoResult

WaveInit ==
    /\ RestIdle
    /\ wvDrivers \in DriverLists
    /\ wvPickup \in {0, 1}
    /\ wvRequired \in {1, 3}
    /\ wvOracle \in BOOLEAN
    /\ wvResult = NoResult
    /\ OracleIdle
    /\ DriverIdle
    /\ DriverPolicyIdle
    /\ FeasibilityIdle

\* build_driver_waves(pickup_location, drivers, required_capacity, policy,
\* time_matrix_provider), the policy being default_driver_policy()
WaveCall ==
    /\ ~wvResult.returned
    /\ wvResult' =
           IF ThresholdsRunOut(FilterEligibleDrivers(wvDrivers, wvRequired), wvPickup,
                               wvOracle, dpol)
           THEN [returned |-> TRUE, raised |-> TRUE]
           ELSE [returned |-> TRUE,
                 raised |-> FALSE,
                 value |-> BuildDriverWaves(wvPickup, wvDrivers, wvRequired, wvOracle, dpol)]
    /\ UNCHANGED <<envVars, clock, queueVars, histVars, loopVars, lockVars, callVars, pushLog,
                   tickVars, batchVars, oracleVars, driverVars, dpolVars, feasVars, wvDrivers,
                   wvPickup, wvRequired, wvOracle>>

WaveNext == WaveCall

SpecWaves == WaveInit /\ [][WaveNext]_vars

-----------------------------------------------------------------------------
(* drivers/policy.py: DriverPolicy.validate, and the dispatcher's wave       *)
(* construction under a policy handed to it                                  *)

\* validate(): TRUE if no check raises ValueError
DriverValidates(pol) ==
    /\ ~(pol.wave_timeout_seconds <= 0)
    /\ ~(pol.wave_radii_degrees = <<>> \/ Len(pol.wave_radii_degrees) # 5)
    /\ ~(pol.wave_eta_seconds = <<>> \/ Len(pol.wave_eta_seconds) # 5)

ThresholdChoices ==
    {<<2, 4, 6, 8, 10>>, <<10, 8, 6, 4, 2>>, <<2, 4, 4, 8, 10>>, <<2, 4, 6, 8>>,
     <<2, 4, 6, 8, 10, 12>>, <<>>}

DriverPolicyChoices ==
    {[DefaultDriverPolicy EXCEPT !.wave_timeout_seconds = timeout,
                                 !.wave_radii_degrees = radii,
                                 !.wave_eta_seconds = etas] :
        timeout \in {0, 2}, radii \in ThresholdChoices, etas \in ThresholdChoices}

DriverPolicyInit ==
    /\ RestIdle
    /\ wvDrivers \in {FleetSpread, Reverse(FleetSpread)}
    /\ wvPickup = 0
    /\ wvRequired = 1
    /\ wvOracle \in BOOLEAN
    /\ wvResult = NoResult
    /\ OracleIdle
    /\ DriverIdle
    /\ FeasibilityIdle
    /\ dpol \in DriverPolicyChoices
    /\ dpolChecked = NoResult

\* driver_policy.validate()
DriverPolicyValidate ==
    /\ ~dpolChecked.returned
    /\ dpolChecked' = [returned |-> TRUE, raised |-> ~DriverValidates(dpol)]
    /\ UNCHANGED <<envVars, clock, queueVars, histVars, loopVars, lockVars, callVars, pushLog,
                   tickVars, batchVars, oracleVars, driverVars, waveVars, feasVars, dpol>>

\* dispatch_job_async_loop(job, available_drivers, driver_policy) up to its
\* waves: `driver_policy or default_driver_policy()` keeps the policy given,
\* and build_driver_waves is called with it
DriverPolicyNext ==
    \/ DriverPolicyValidate
    \/ WaveCall

SpecDriverPolicy == DriverPolicyInit /\ [][DriverPolicyNext]_vars

-----------------------------------------------------------------------------
(* routing/matrix_adapter.py: PreloadingTimeMatrixProvider over the OSRM table *)

\* the places coordinates are taken from, one of them cut off from the roads
Places == {0, 3, 9}

CoordinateLists ==
    {<<>>} \cup {<<a>> : a \in Places}
           \cup {<<a, b>> : a \in Places, b \in Places}
           \cup {<<a, b, c>> : a \in Places, b \in Places, c \in Places}

\* osrm_client.compute_table(coordinates, coordinates)["durations"]
ComputeTable(coordinates) ==
    [i \in DOMAIN coordinates |->
        [j \in DOMAIN coordinates |-> Route(coordinates[i], coordinates[j])]]

\* the cells of a table that hold a duration, and the last of a set of
\* cells in the order the two loops visit them
RoutedCells(durations) ==
    {p \in (DOMAIN durations) \X (DOMAIN durations) : durations[p[1]][p[2]] # NoneValue}

LastCell(cells) ==
    CHOOSE p \in cells : \A q \in cells : q[1] < p[1] \/ (q[1] = p[1] /\ q[2] <= p[2])

\* self._cache after the two loops over a fetched table:
\* self._cache[(src[0], src[1], dest[0], dest[1])] = float(duration)
MergeTable_Transposed(c, coordinates, durations) ==
    With(RoutedCells(durations), LAMBDA cells :
        With({<<coordinates[p[2]], coordinates[p[1]]>> : p \in cells}, LAMBDA keys :
            [k \in DOMAIN c \cup keys |->
                IF k \in keys
                THEN With(LastCell({p \in cells : <<coordinates[p[2]], coordinates[p[1]]>> = k}),
                          LAMBDA p : durations[p[1]][p[2]])
                ELSE c[k]]))

MergeTable(c, coordinates, durations) ==
    With(RoutedCells(durations), LAMBDA cells :
        With({<<coordinates[p[1]], coordinates[p[2]]>> : p \in cells}, LAMBDA keys :
            [k \in DOMAIN c \cup keys |->
                IF k \in keys
                THEN With(LastCell({p \in cells : <<coordinates[p[1]], coordinates[p[2]]>> = k}),
                          LAMBDA p : durations[p[1]][p[2]])
                ELSE c[k]]))

\* the pairs of a query the cache holds
CachedCells(c, coordinates) ==
    {p \in (DOMAIN coordinates) \X (DOMAIN coordinates) :
        <<coordinates[p[1]], coordinates[p[2]]>> \in DOMAIN c}

\* __call__: the matrix returned and the cache left
ProviderCall(c, coordinates) ==
    With([i \in DOMAIN coordinates |->
             [j \in DOMAIN coordinates |->
                 IF <<coordinates[i], coordinates[j]>> \in DOMAIN c
                 THEN c[<<coordinates[i], coordinates[j]>>]
                 ELSE Infinity]],
         LAMBDA matrix :
            IF CachedCells(c, coordinates) = (DOMAIN coordinates) \X (DOMAIN coordinates)
            THEN [matrix |-> matrix, cache |-> c, fetched |-> FALSE]
            ELSE With(ComputeTable(coordinates), LAMBDA durations :
                     [matrix |-> [i \in DOMAIN coordinates |->
                                     [j \in DOMAIN coordinates |->
                                         IF durations[i][j] # NoneValue THEN durations[i][j]
                                         ELSE matrix[i][j]]],
                      cache |-> MergeTable(c, coordinates, durations),
                      fetched |-> TRUE]))

OracleFrame ==
    UNCHANGED <<envVars, clock, queueVars, histVars, loopVars, lockVars, callVars, pushLog,
                tickVars, batchVars, waveVars, driverVars, dpolVars, feasVars>>

\* prefetch(coordinates)
OraclePrefetch(coordinates) ==
    /\ orCalls < MaxOracleCalls
    /\ orCalls' = orCalls + 1
    /\ cache' = IF Len(coordinates) = 0 THEN cache
                ELSE MergeTable(cache, coordinates, ComputeTable(coordinates))
    /\ UNCHANGED orResult
    /\ OracleFrame

\* provider(coordinates); served is the number of pairs found in the cache
OracleCall(coordinates) ==
    /\ orCalls < MaxOracleCalls
    /\ orCalls' = orCalls + 1
    /\ \E res \in {ProviderCall(cache, coordinates)} :
          /\ cache' = res.cache
          /\ orResult' = [returned |-> TRUE, coordinates |-> coordinates,
                          matrix |-> res.matrix, fetched |-> res.fetched,
                          served |-> Cardinality(CachedCells(cache, coordinates))]
    /\ OracleFrame

OracleInit == RestIdle /\ FleetIdle

OracleNext ==
    \/ \E coordinates \in CoordinateLists : OraclePrefetch(coordinates)
    \/ \E coordinates \in CoordinateLists : OracleCall(coordinates)

SpecOracle == OracleInit /\ [][OracleNext]_vars

-----------------------------------------------------------------------------
(* Properties of the queue *)

\* the number of places of the bins an order id is held at
BinCount(o) == CountIn(raw_ids, o) + CountIn(batching_ids, o) + CountInJobs(ready_jobs, o)

C9_NoLossNoDuplication ==
    \A o \in OrderIds :
        orders[o] \notin {"ABSENT", "CANCELLED"}
            => CountIn(raw_ids, o) + CountIn(batching_ids, o) + committed[o] = 1

\* a cycle has committed a batch while another order stays waiting in BATCHING
C9_Witness ==
    /\ lastOp.op = "cycle"
    /\ \E i \in DOMAIN ready_jobs : Len(ready_jobs[i].order_ids) >= 2
    /\ \E o \in OrderIds : orders[o] = "BATCHING" /\ committed[o] = 0
    /\ \A o \in OrderIds : orders[o] # "ABSENT"

\* C10: enqueue_raw of an order whose id is already held by a bin (or is
\* known to the queue at all) changes nothing - bins, positions, statuses
\* and entry times stay - and after any enqueue_raw the id is known, so a
\* second enqueue_raw of the same order leaves the state of the first.
C10_EnqueueIdempotent ==
    [][ \A o \in OrderIds :
            EnqueueRaw(o) =>
                /\ orders'[o] # "ABSENT"
                /\ (BinCount(o) > 0 \/ orders[o] # "ABSENT") => UNCHANGED queueVars ]_vars

\* an order was enqueued again, later than its entry, while every order is held by a bin
C10_Witness ==
    /\ lastOp = [op |-> "enqueue", known |-> TRUE]
    /\ \A o \in OrderIds : BinCount(o) = 1 /\ entered_raw_at[o] < clock
    /\ \E o \in OrderIds : orders[o] = "BATCHING"

\* the eligibility rule of advance_to_batching, as specified: old enough in
\* RAW, or no horizon, or ready within the horizon, or readiness unknown
Eligible(o, now, ready_horizon_secs, max_raw_age_sec) ==
    \/ max_raw_age_sec # NoneValue /\ now - entered_raw_at[o] >= max_raw_age_sec
    \/ ready_horizon_secs = 0
    \/ catalog[o].ready_at = NoTime
    \/ catalog[o].ready_at <= now + ready_horizon_secs

EligibleSet(now, ready_horizon_secs, max_raw_age_sec) ==
    {o \in Range(raw_ids) : Eligible(o, now, ready_horizon_secs, max_raw_age_sec)}

\* the orders a step takes from RAW to BATCHING
MovedSet == {o \in Range(raw_ids) : o \in Range(batching_ids') /\ orders'[o] = "BATCHING"}

Min(a, b) == IF a < b THEN a ELSE b

\* C11: every call of move_raw_to_batching completes without error, moves
\* only eligible RAW orders, moves all of them if no limit is given and
\* min(limit, number eligible) of them otherwise, for a zero or positive
\* horizon and a known or unknown ready_at; an order it does not move stays
\* in RAW with status RAW.
C11_AdvanceMovesEligible ==
    [][ \A h \in HorizonChoices, a \in RawAgeChoices, l \in LimitChoices :
            MoveRawToBatching(h, a, l) =>
                /\ ~lastOp'.raised
                /\ MovedSet \subseteq EligibleSet(clock, h, a)
                /\ Cardinality(MovedSet) =
                       IF l = NoneValue THEN Cardinality(EligibleSet(clock, h, a))
                       ELSE Min(l, Cardinality(EligibleSet(clock, h, a)))
                /\ \A o \in Range(raw_ids) \ MovedSet :
                       o \in Range(raw_ids') /\ orders'[o] = "RAW" ]_vars

\* the list move_raw_to_batching returns, if it returns
MovedList(ready_horizon_secs, max_raw_age_sec, limit) ==
    MoveResult(clock, ready_horizon_secs, max_raw_age_sec, limit).moved

\* the ids of a list that are in a set, in the order of the list
Kept(ids, S) == SelectSeq(ids, LAMBDA o : o \in S)

\* the statement of C12 on the bins, for one call
AdvanceInOrder(h, a, l) ==
    /\ l # NoneValue => Cardinality(MovedSet) <= l
    /\ batching_ids' = batching_ids \o Kept(raw_ids, MovedSet)
    /\ raw_ids' = Kept(raw_ids, Range(raw_ids) \ MovedSet)
    /\ \A i, j \in DOMAIN raw_ids :
           /\ i < j
           /\ raw_ids[j] \in MovedSet
           /\ raw_ids[i] \in EligibleSet(clock, h, a)
           => raw_ids[i] \in MovedSet

\* C12: every call of move_raw_to_batching moves at most `limit` orders and
\* returns the moved orders in arrival order; they are appended to BATCHING
\* in that order, no eligible order is overtaken by a later-enqueued one,
\* and the orders left behind stay in RAW in their original order.
C12_AdvanceLimitAndOrder ==
    [][ \A h \in HorizonChoices, a \in RawAgeChoices, l \in LimitChoices :
            MoveRawToBatching(h, a, l) =>
                /\ ~lastOp'.raised
                /\ MovedList(h, a, l) = Kept(raw_ids, MovedSet)
                /\ AdvanceInOrder(h, a, l) ]_vars

\* the calls of move_raw_to_batching that return keep limit and order
ReturningAdvanceInOrder ==
    [][ \A h \in HorizonChoices, a \in RawAgeChoices, l \in LimitChoices :
            MoveRawToBatching(h, a, l) =>
                /\ AdvanceInOrder(h, a, l)
                /\ ~lastOp'.raised => MovedList(h, a, l) = Kept(raw_ids, MovedSet) ]_vars

\* C13: finalize_orders_as_ready_jobs removes every order id the supplied
\* jobs reference from BATCHING and marks it READY, appends the jobs to the
\* tail of READY in the order given, and leaves the BATCHING orders no job
\* references in their bin, at their relative position, with their status.
C13_CommitEffect ==
    [][ \A jobs \in CommitInputs :
            FinalizeOrdersAsReadyJobs(jobs) =>
                /\ \A o \in JobOrderIds(jobs) :
                       o \notin Range(batching_ids') /\ orders'[o] = "READY"
                /\ ready_jobs' = ready_jobs \o jobs
                /\ batching_ids' = Kept(batching_ids, Range(batching_ids) \ JobOrderIds(jobs))
                /\ \A o \in OrderIds \ JobOrderIds(jobs) : orders'[o] = orders[o] ]_vars

\* a commit took one order of the pool into a job and left the other in BATCHING
C13_Witness ==
    /\ lastOp.op = "commit"
    /\ \E i \in DOMAIN ready_jobs, o \in OrderIds :
           o \in Range(ready_jobs[i].order_ids) /\ orders[o] = "READY"
    /\ \E o \in Range(batching_ids) : orders[o] = "BATCHING" /\ committed[o] = 0

\* C14: READY is a strict FIFO.  pop_ready_jobs(n) returns the first
\* min(n, |READY|) jobs in their order and removes exactly those, and with
\* n <= 0 returns nothing and changes nothing; a commit appends its jobs
\* at the tail; no other call changes READY.  Jobs therefore leave READY in
\* the order they were committed, each once.
C14_ReadyFifo ==
    [][ /\ \A n \in PopChoices :
               PopReadyJobs(n) =>
                   /\ Len(PoppedJobs(n)) = (IF n <= 0 THEN 0 ELSE Min(n, Len(ready_jobs)))
                   /\ ready_jobs = PoppedJobs(n) \o ready_jobs'
                   /\ n <= 0 => UNCHANGED queueVars
        /\ \A jobs \in CommitInputs :
               FinalizeOrdersAsReadyJobs(jobs) => ready_jobs' = ready_jobs \o jobs
        /\ ready_jobs' # ready_jobs =>
               \/ \E n \in PopChoices : PopReadyJobs(n)
               \/ \E jobs \in CommitInputs : FinalizeOrdersAsReadyJobs(jobs) ]_vars

\* a pop took the job committed first and left the job committed after it
C14_Witness ==
    /\ lastOp.op = "pop"
    /\ Len(ready_jobs) = 1
    /\ \E o \in OrderIds : committed[o] = 1 /\ CountInJobs(ready_jobs, o) = 0
    /\ \E o \in OrderIds : committed[o] = 1 /\ CountInJobs(ready_jobs, o) = 1

\* C15: evict_cancelled of a known order takes its id out of RAW or
\* BATCHING, sets its status to CANCELLED and drops both its entry times, so
\* that its wait seconds are undefined; the other orders keep bin, position,
\* status and entry times; READY, with any job that holds the order, stays
\* as it is; evict_cancelled of an unknown id changes nothing.
C15_CancelFrame ==
    [][ \A x \in OrderIds :
            EvictCancelled(x) =>
                IF orders[x] = "ABSENT"
                THEN UNCHANGED queueVars
                ELSE /\ BinCount(x)' = CountInJobs(ready_jobs, x)
                     /\ orders'[x] = "CANCELLED"
                     /\ WaitSeconds(entered_raw_at', x, clock') = NoneValue
                     /\ WaitSeconds(entered_batching_at', x, clock') = NoneValue
                     /\ raw_ids' = Kept(raw_ids, OrderIds \ {x})
                     /\ batching_ids' = Kept(batching_ids, OrderIds \ {x})
                     /\ ready_jobs' = ready_jobs
                     /\ \A o \in OrderIds \ {x} :
                            /\ orders'[o] = orders[o]
                            /\ entered_raw_at'[o] = entered_raw_at[o]
                            /\ entered_batching_at'[o] = entered_batching_at[o] ]_vars

\* an order held by a job of READY was cancelled while another order waits
\* in BATCHING with its entry times
C15_Witness ==
    /\ lastOp = [op |-> "cancel", known |-> TRUE]
    /\ \E o \in OrderIds :
           /\ orders[o] = "CANCELLED"
           /\ CountInJobs(ready_jobs, o) = 1
           /\ entered_raw_at[o] = NoTime
    /\ \E o \in OrderIds :
           /\ orders[o] = "BATCHING"
           /\ o \in Range(batching_ids)
           /\ entered_batching_at[o] # NoTime

\* C16: CANCELLED is terminal.  Once an order's status is CANCELLED no
\* operation - enqueue_raw, move_raw_to_batching, finalize, pop, the
\* transition to ASSIGNED, the break-down of a job to RAW - changes its
\* status or puts its id into RAW or BATCHING.
C16_CancelledTerminal ==
    [][ \A o \in OrderIds :
            orders[o] = "CANCELLED" =>
                /\ orders'[o] = "CANCELLED"
                /\ o \notin Range(raw_ids') \cup Range(batching_ids') ]_vars

\* an order's status names the bin that holds its id
StatusAgreesWithBin(o) ==
    /\ o \in Range(raw_ids) <=> orders[o] = "RAW"
    /\ o \in Range(batching_ids) <=> orders[o] = "BATCHING"

\* C17: with enqueue_raw and cancel calls running in parallel with the
\* batching tick's advance, no call fails, and whenever no advance is in
\* progress every order id is in at most one bin and its status names that
\* bin, as if each call had run alone at one instant.
C17_CallsAtomic ==
    /\ tickPc # "failed"
    /\ tickPc \in {"idle", "done"} =>
           \A o \in OrderIds : BinCount(o) <= 1 /\ StatusAgreesWithBin(o)

-----------------------------------------------------------------------------
(* Properties of batch_orders *)

\* the order ids the emitted jobs list, job after job
EmittedIds == Flatten([i \in DOMAIN batchResult.value.jobs |->
                          batchResult.value.jobs[i].order_ids])

\* C18: the jobs one batch_orders call emits are pairwise disjoint: no order
\* id is listed by two of them or twice by one, whatever the pool and
\* whether the clusters come from continuous chaining, from pickup-id and
\* coordinate grouping, or from the near-pickup merge.
C18_JobsDisjoint ==
    batchResult.returned => \A o \in OrderIds : CountIn(EmittedIds, o) <= 1

\* a call in which the near-pickup merge joined two clusters emitted a batch
\* and another job
C18_Witness ==
    /\ batchResult.returned
    /\ batchNear
    /\ Len(BuildClustersNear(batchPool, policy, catalog))
           < Len(BuildClusters(batchPool, policy, catalog))
    /\ Len(batchResult.value.jobs) >= 2
    /\ \E i \in DOMAIN batchResult.value.jobs : Len(batchResult.value.jobs[i].order_ids) >= 2

\* C19: the unbatched_orders batch_orders returns are exactly the input
\* orders that no emitted job lists, so that jobs and unbatched_orders
\* partition the pool: every input order is listed once, by one job or by
\* unbatched_orders, and no order outside the pool is listed at all.
C19_JobsAndUnbatchedPartition ==
    batchResult.returned =>
        /\ Range(batchResult.value.unbatched_orders) = Range(batchPool) \ Range(EmittedIds)
        /\ \A o \in OrderIds :
               CountIn(EmittedIds, o) + CountIn(batchResult.value.unbatched_orders, o)
                   = (IF o \in Range(batchPool) THEN 1 ELSE 0)

\* a call emitted a batch and left an order of the pool unbatched
C19_Witness ==
    /\ batchResult.returned
    /\ batchResult.value.unbatched_orders # <<>>
    /\ \E i \in DOMAIN batchResult.value.jobs : Len(batchResult.value.jobs[i].order_ids) >= 2

\* the positions in a job's stop sequence of the stops of one kind of one order
StopsOf(job, o, stop_type) ==
    {k \in DOMAIN job.stops : job.stops[k].order_id = o /\ job.stops[k].stop_type = stop_type}

WellFormed(job) ==
    /\ \A k \in DOMAIN job.stops : job.stops[k].order_id \in Range(job.order_ids)
    /\ \A o \in Range(job.order_ids) :
           /\ Cardinality(StopsOf(job, o, "PICKUP")) = 1
           /\ Cardinality(StopsOf(job, o, "DROPOFF")) = 1
           /\ \A p \in StopsOf(job, o, "PICKUP"), d \in StopsOf(job, o, "DROPOFF") : p < d

\* C20: every job batch_orders emits is well-formed: its stop sequence holds
\* exactly one PICKUP and one DROPOFF for each order id it lists, no stop of
\* another order, and each order's PICKUP strictly before its DROPOFF.
C20_JobsWellFormed ==
    batchResult.returned =>
        \A i \in DOMAIN batchResult.value.jobs : WellFormed(batchResult.value.jobs[i])

\* a call emitted a job of three orders, built by the upgrade of a pair
C20_Witness ==
    /\ batchResult.returned
    /\ \E i \in DOMAIN batchResult.value.jobs :
           /\ batchResult.value.jobs[i].job_type = "BATCH_3"
           /\ Len(batchResult.value.jobs[i].stops) = 6

\* C21: every job batch_orders emits lists at most max_batch_size orders,
\* for every policy that validates, max_batch_size 1 and 2 included.
C21_JobSizeBounded ==
    batchResult.returned =>
        \A i \in DOMAIN batchResult.value.jobs :
            Len(batchResult.value.jobs[i].order_ids) <= policy.max_batch_size

\* the time of a job's route and the sum of its orders' own trips
JobTimeSeconds(job) ==
    SumSeq([k \in 1..(Len(job.stops) - 1) |->
               Duration(job.stops[k].coord, job.stops[k + 1].coord)])

JobSingleSum(job) == BestSingleTimeSumSeconds(job.order_ids, catalog)

\* detour factor <= cap, the cap in hundredths
DetourWithin(job, cap) == 100 * JobTimeSeconds(job) <= cap * JobSingleSum(job)

\* C22: an emitted job of two orders has detour factor (route time over the
\* sum of its orders' own pickup-to-dropoff times) at most pair_detour_cap,
\* and an emitted job of three or more orders has detour factor at most
\* multi_detour_cap.
C22_DetourCapped ==
    batchResult.returned =>
        \A i \in DOMAIN batchResult.value.jobs :
            /\ Len(batchResult.value.jobs[i].order_ids) = 2
                   => DetourWithin(batchResult.value.jobs[i], policy.pair_detour_cap)
            /\ Len(batchResult.value.jobs[i].order_ids) >= 3
                   => DetourWithin(batchResult.value.jobs[i], policy.multi_detour_cap)

\* the pairs alone are held to their cap
PairsDetourCapped ==
    batchResult.returned =>
        \A i \in DOMAIN batchResult.value.jobs :
            Len(batchResult.value.jobs[i].order_ids) = 2
                => DetourWithin(batchResult.value.jobs[i], policy.pair_detour_cap)

\* the age batch_orders was given for an order
GivenAge(o) == AgeOf(batchAges, o)

\* C23: with enable_rolling_horizon set, an order whose age is at most
\* max_wait_time_seconds is never emitted as a SINGLE job: a lone order of
\* that age gives no job and is returned unbatched, and a lone order older
\* than the threshold gives one SINGLE job, PICKUP then DROPOFF.
C23_YoungNeverSingle ==
    batchResult.returned /\ policy.enable_rolling_horizon =>
        /\ \A i \in DOMAIN batchResult.value.jobs :
               batchResult.value.jobs[i].job_type = "SINGLE"
                   => GivenAge(batchResult.value.jobs[i].order_ids[1])
                          > policy.max_wait_time_seconds
        /\ Len(batchPool) = 1 /\ GivenAge(batchPool[1]) <= policy.max_wait_time_seconds
               => /\ batchResult.value.jobs = <<>>
                  /\ batchResult.value.unbatched_orders = batchPool
        /\ Len(batchPool) = 1 /\ GivenAge(batchPool[1]) > policy.max_wait_time_seconds
               => /\ Len(batchResult.value.jobs) = 1
                  /\ batchResult.value.jobs[1].job_type = "SINGLE"
                  /\ batchResult.value.jobs[1].stops
                         = BundleStops(batchPool, catalog)

\* the same with the threshold itself on the side of the orders emitted
YoungerNeverSingle ==
    batchResult.returned /\ policy.enable_rolling_horizon =>
        /\ \A i \in DOMAIN batchResult.value.jobs :
               batchResult.value.jobs[i].job_type = "SINGLE"
                   => GivenAge(batchResult.value.jobs[i].order_ids[1])
                          >= policy.max_wait_time_seconds
        /\ Len(batchPool) = 1 /\ GivenAge(batchPool[1]) < policy.max_wait_time_seconds
               => /\ batchResult.value.jobs = <<>>
                  /\ batchResult.value.unbatched_orders = batchPool
        /\ Len(batchPool) = 1 /\ GivenAge(batchPool[1]) >= policy.max_wait_time_seconds
               => /\ Len(batchResult.value.jobs) = 1
                  /\ batchResult.value.jobs[1].job_type = "SINGLE"
                  /\ batchResult.value.jobs[1].stops = BundleStops(batchPool, catalog)

-----------------------------------------------------------------------------
(* Properties of wave construction *)

\* the drivers of the waves returned, wave after wave
WaveDrivers == Flatten(wvResult.value)

Qualifies(d) == d.status = "available" /\ d.max_capacity >= wvRequired

\* C24: wave construction returns exactly five waves; every driver in a wave
\* is one of the drivers given, has status AVAILABLE and max_capacity at
\* least required_capacity; with no such driver the five waves are empty.
C24_FiveWavesOfEligible ==
    wvResult.returned =>
        /\ Len(wvResult.value) = 5
        /\ \A k \in DOMAIN WaveDrivers :
               WaveDrivers[k] \in Range(wvDrivers) /\ Qualifies(WaveDrivers[k])
        /\ (\A d \in Range(wvDrivers) : ~Qualifies(d))
               => wvResult.value = <<<<>>, <<>>, <<>>, <<>>, <<>>>>

\* waves were built from a list holding a driver who is not AVAILABLE, near
\* enough for the first wave, and a driver without the capacity asked for
C24_Witness ==
    /\ wvResult.returned
    /\ WaveDrivers # <<>>
    /\ \E d \in Range(wvDrivers) :
           /\ d.status # "available"
           /\ d.max_capacity >= wvRequired
           /\ DistanceDegrees(wvPickup, d) <= WaveRadii[1]
    /\ \E d \in Range(wvDrivers) : d.status = "available" /\ d.max_capacity < wvRequired

\* the bucketing metric of the call made: travel time from the driver to
\* the pickup if a provider is passed, distance in degrees otherwise
TravelTime(from, to) == IF Route(from, to) = NoneValue THEN Infinity ELSE Route(from, to)

Metric(d) == IF wvOracle THEN TravelTime(d.location, wvPickup)
             ELSE Abs(wvPickup - d.location)

Thresholds == IF wvOracle THEN WaveEtas ELSE WaveRadii

\* C25: the buckets do not overlap and the thresholds are exact: a driver
\* with metric d is found in wave 1 only if d <= t1, in wave N (2..5) only
\* if t(N-1) < d <= tN, and in no wave if d > t5; no driver is in two waves
\* or twice in one.  Both metrics.
C25_BucketsExact ==
    wvResult.returned =>
        /\ \A n \in DOMAIN wvResult.value : \A k \in DOMAIN wvResult.value[n] :
               /\ Metric(wvResult.value[n][k]) <= Thresholds[n]
               /\ n > 1 => Metric(wvResult.value[n][k]) > Thresholds[n - 1]
        /\ \A j, k \in DOMAIN WaveDrivers : WaveDrivers[j].id = WaveDrivers[k].id => j = k

\* by travel time, a driver exactly on the threshold of wave 2 and a driver
\* exactly on the threshold of wave 5 are in those waves
C25_Witness ==
    /\ wvResult.returned
    /\ wvOracle
    /\ \E k \in DOMAIN wvResult.value[2] : Metric(wvResult.value[2][k]) = WaveEtas[2]
    /\ \E k \in DOMAIN wvResult.value[5] : Metric(wvResult.value[5][k]) = WaveEtas[5]
    /\ \E d \in Range(wvDrivers) : Qualifies(d) /\ Metric(d) > WaveEtas[5]

\* the drivers given whose metric falls in bucket n
InBucket(d, n) ==
    /\ Qualifies(d)
    /\ Metric(d) <= Thresholds[n]
    /\ n > 1 => Metric(d) > Thresholds[n - 1]

\* wave n holds at most five drivers, and no driver of its bucket left out
\* is nearer than one it holds
FiveNearest(n) ==
    /\ Len(wvResult.value[n]) <= WaveCap
    /\ Cardinality({d \in Range(wvDrivers) : InBucket(d, n)}) > WaveCap
           => Len(wvResult.value[n]) = WaveCap
    /\ \A d \in Range(wvDrivers) :
           InBucket(d, n) /\ d \notin Range(wvResult.value[n])
               => \A k \in DOMAIN wvResult.value[n] : Metric(wvResult.value[n][k]) <= Metric(d)

\* C26: every wave returned holds at most five drivers, and a bucket of
\* more than five eligible drivers gives the five nearest by the
\* bucketing metric - by distance in degrees and by travel time alike.
C26_WavesCapped ==
    wvResult.returned => \A n \in DOMAIN wvResult.value : FiveNearest(n)

\* the same for the calls made without a time_matrix_provider
FallbackWavesCapped ==
    wvResult.returned /\ ~wvOracle => \A n \in DOMAIN wvResult.value : FiveNearest(n)

\* C27: within each wave the drivers are in non-decreasing order of the
\* metric used for bucketing, nearest first, whatever the order of the
\* driver list given.
C27_WavesSorted ==
    wvResult.returned =>
        \A n \in DOMAIN wvResult.value :
            \A j, k \in DOMAIN wvResult.value[n] :
                j < k => Metric(wvResult.value[n][j]) <= Metric(wvResult.value[n][k])

\* the position of a driver in the list given
GivenAt(d) == CHOOSE i \in DOMAIN wvDrivers : wvDrivers[i] = d

\* a wave holds a nearer driver before a farther one that was given first
C27_Witness ==
    /\ wvResult.returned
    /\ \E n \in DOMAIN wvResult.value :
           \E j, k \in DOMAIN wvResult.value[n] :
               /\ j < k
               /\ Metric(wvResult.value[n][j]) < Metric(wvResult.value[n][k])
               /\ GivenAt(wvResult.value[n][k]) < GivenAt(wvResult.value[n][j])

\* ------------------------------------------------------------------
\* Properties of the driver state machine
\* ------------------------------------------------------------------

\* what an accept of a job of job_size orders must leave of the driver held
AcceptedAs(job_size, enable_continuous_chaining) ==
    IF drv.max_capacity < job_size
    THEN /\ lastOp'.raised
         /\ drv' = drv
         /\ drvJob' = drvJob
    ELSE /\ ~lastOp'.raised
         /\ drv'.max_capacity = drv.max_capacity - job_size
         /\ drv'.max_capacity >= 0
         /\ drv'.status = IF drv'.max_capacity = 0 THEN "transittoCollect"
                          ELSE IF enable_continuous_chaining THEN "transittoCollect"
                          ELSE drv.status
         /\ drv'.id = drv.id
         /\ drv'.location = drv.location

\* C28: a successful accept of a job decrements the driver's capacity by the
\* number of orders of the job and never makes it negative; the status
\* becomes TRANSIT_TO_COLLECT if the remaining capacity is 0, or if it is
\* positive and chaining is enabled, and is otherwise left as it was; an
\* accept of a job larger than the capacity raises and changes no driver.
C28_AcceptDecrementsCapacity ==
    [][\A b \in PoppedBundles, chaining \in BOOLEAN :
          DriverAcceptance(b, chaining) => AcceptedAs(Len(b), chaining)]_vars

\* a rejected accept of a driver who accepted two orders without chaining
\* before: capacity 1 left, status AVAILABLE retained
C28_Witness ==
    /\ lastOp.op = "accept"
    /\ lastOp.raised
    /\ drv.max_capacity = 1
    /\ drv.status = "available"
    /\ Len(drvJob) = 2

\* C29: when the driver withdraws from the job held or breaks down, the
\* driver's status becomes OFFLINE and every order of the job has status RAW
\* and is held in the queue's RAW bin again.
C29_WithdrawalShatters ==
    [][DriverCancellation =>
          /\ drv'.status = "offline"
          /\ \A o \in Range(drvJob) : orders'[o] = "RAW" /\ o \in Range(raw_ids')]_vars

\* what the code does give on a withdrawal: the driver OFFLINE with the
\* capacity left as the accept decremented it, and the status RAW on orders
\* that no bin of the queue holds
WithdrawalMarksRaw ==
    [][DriverCancellation =>
          /\ drv'.status = "offline"
          /\ drv'.max_capacity = drv.max_capacity
          /\ raw_ids' = raw_ids
          /\ \A o \in Range(drvJob) : orders'[o] = "RAW"]_vars

\* ------------------------------------------------------------------
\* Properties of the time-matrix provider
\* ------------------------------------------------------------------

\* the duration of a pair as it depends on the two coordinates alone
DurationOf(a, b) == IF Route(a, b) = NoneValue THEN Infinity ELSE Route(a, b)

\* C30: whatever prefetch and __call__ calls were made before, in whatever
\* order and grouping, every pair the cache holds has the duration of its two
\* coordinates, a query containing a pair not cached leaves every routable
\* pair of it cached, and the matrix returned is N x N in the order of the
\* coordinates given, each cell the duration of its two coordinates, +inf
\* for a pair without route.
C30_OracleOrderIndependent ==
    /\ \A k \in DOMAIN cache : cache[k] = Route(k[1], k[2]) /\ cache[k] # NoneValue
    /\ orResult.returned =>
          /\ DOMAIN orResult.matrix = DOMAIN orResult.coordinates
          /\ \A i \in DOMAIN orResult.coordinates :
                /\ DOMAIN orResult.matrix[i] = DOMAIN orResult.coordinates
                /\ \A j \in DOMAIN orResult.coordinates :
                      /\ orResult.matrix[i][j] =
                            DurationOf(orResult.coordinates[i], orResult.coordinates[j])
                      /\ Route(orResult.coordinates[i], orResult.coordinates[j]) # NoneValue
                            => <<orResult.coordinates[i], orResult.coordinates[j]>>
                                  \in DOMAIN cache

\* a query of three places answered after earlier calls: four of its pairs
\* were cached, the rest fetched, and a pair without route is in it
C30_Witness ==
    /\ orResult.returned
    /\ orResult.fetched
    /\ orResult.served = 4
    /\ orResult.coordinates = <<3, 0, 9>>
    /\ orResult.matrix[1][3] = Infinity
    /\ orResult.matrix[1][2] = 6
    /\ orCalls >= 2

\* ------------------------------------------------------------------
\* Properties of the broadcast of waves
\* ------------------------------------------------------------------

\* a driver's device shows the offer: it was pushed to the driver and no
\* revoke_offer that names the driver came after
HoldsOffer(d) ==
    \E i \in DOMAIN pushLog :
        /\ pushLog[i].op = "offer"
        /\ d \in Range(pushLog[i].drivers)
        /\ \A j \in (i + 1)..Len(pushLog) :
              ~(pushLog[j].op = "revoke" /\ d \in Range(pushLog[j].drivers))

Holders == {d \in DriverIds : HoldsOffer(d)}

\* C33: the loop revokes the offer on exactly the drivers of the wave whose
\* wait ended before it records and broadcasts the next wave's offer: no
\* driver holds an unrevoked offer while the loop is between two waves, and
\* at any moment the holders of an unrevoked offer are all of one wave, the
\* one recorded as the job's active offer.
C33_OneWaveHoldsOffer ==
    /\ \A i \in DOMAIN pushLog :
          (pushLog[i].op = "revoke" /\ pushLog[i].by = 0)
              => /\ pushLog[i].drivers = waves[pushLog[i].wave]
                 /\ \E k \in 1..(i - 1) :
                       /\ pushLog[k].op = "offer"
                       /\ pushLog[k].wave = pushLog[i].wave
                       /\ \A j \in (k + 1)..(i - 1) : pushLog[j].by # 0
    /\ loopPc \in {"next", "offer", "push"} => Holders = {}
    /\ exhausted => Holders = {}
    /\ \A d \in Holders :
          /\ d \in Range(activeOffer.drivers)
          /\ WaveOf(d) = waveIdx
          /\ activeOffer.drivers = waves[waveIdx]

\* the second wave offered holds the offer, the first wave's was revoked
C33_Witness ==
    /\ Len(Offers) = 2
    /\ Holders # {}
    /\ loopPc = "sleep"
    /\ \E d \in DriverIds : WaveOf(d) # 0 /\ WaveOf(d) < waveIdx /\ ~HoldsOffer(d)

\* C35: a batch_orders call changes no order's status and neither the
\* members nor the order of the RAW, BATCHING and READY bins, whatever jobs
\* it returns.
C35_EngineReadOnly ==
    [][batchResult' # batchResult =>
          /\ orders' = orders
          /\ raw_ids' = raw_ids
          /\ batching_ids' = batching_ids
          /\ ready_jobs' = ready_jobs
          /\ entered_raw_at' = entered_raw_at
          /\ entered_batching_at' = entered_batching_at]_vars

\* a call returned a pair and a single, and the three orders are still in
\* BATCHING in the order they were pooled
C35_Witness ==
    /\ batchResult.returned
    /\ Len(batchPool) = 3
    /\ Len(batchResult.value.jobs) = 2
    /\ batching_ids = batchPool
    /\ ready_jobs = <<>>
    /\ \A o \in Range(batchPool) : orders[o] = "BATCHING"

\* ------------------------------------------------------------------
\* Properties of repeated batching ticks
\* ------------------------------------------------------------------

\* C34: under repeated ticks no order is deferred forever: an order held in
\* BATCHING is in the end emitted in a job and READY, whatever the policy
\* (prefer_older_orders or not) and however many orders the pool holds
\* beside max_cluster_candidates.
C34_NoOrderDeferredForever ==
    \A o \in OrderIds : (orders[o] = "BATCHING") ~> (orders[o] = "READY")

\* the same for the policies that hand ages to the engine or do not defer
AgedOrdersEmitted ==
    \A o \in OrderIds :
        (orders[o] = "BATCHING"
            /\ (policy.prefer_older_orders \/ ~policy.enable_rolling_horizon))
        ~> (orders[o] = "READY")

\* with ages withheld and the rolling horizon on, a lone order stays in
\* BATCHING at every tick
UnagedSinglesKept ==
    [][(/\ HorizonCycle
        /\ ~policy.prefer_older_orders
        /\ policy.enable_rolling_horizon
        /\ policy.max_wait_time_seconds > 0
        /\ Len(raw_ids) + Len(batching_ids) = 1)
          => (ready_jobs' = ready_jobs /\ Len(batching_ids') = 1)]_vars

\* ------------------------------------------------------------------
\* Properties of policy validation
\* ------------------------------------------------------------------

\* C31: batch_orders validates the policy first: a policy with
\* max_batch_size < 1, a detour cap below 1.0, a negative soft or hard wait,
\* or batching_hard_wait_sec < batching_soft_wait_sec raises and gives no
\* BatchResult.
C31_InvalidPolicyRejected ==
    (/\ batchResult.returned
     /\ \/ policy.max_batch_size < 1
        \/ policy.pair_detour_cap < 100
        \/ policy.multi_detour_cap < 100
        \/ policy.batching_soft_wait_sec < 0
        \/ policy.batching_hard_wait_sec < 0
        \/ policy.batching_hard_wait_sec < policy.batching_soft_wait_sec)
        => batchResult.raised

\* the same with a hard wait below the soft wait counted only when the hard
\* wait is not 0, which is what validate tests; and a policy free of all
\* these faults gives a result
PositiveWaitsRejected ==
    batchResult.returned =>
        batchResult.raised =
            (\/ policy.max_batch_size < 1
             \/ policy.pair_detour_cap < 100
             \/ policy.multi_detour_cap < 100
             \/ policy.batching_soft_wait_sec < 0
             \/ policy.batching_hard_wait_sec < 0
             \/ /\ policy.batching_hard_wait_sec # 0
                /\ policy.batching_hard_wait_sec < policy.batching_soft_wait_sec)

\* the thresholds of the metric the waves were built by
UsedThresholds == IF wvOracle THEN dpol.wave_eta_seconds ELSE dpol.wave_radii_degrees

StrictlyIncreasing(thresholds) ==
    \A n \in DOMAIN thresholds : n > 1 => thresholds[n - 1] < thresholds[n]

\* C32: validate() accepts a DriverPolicy only if wave_timeout_seconds > 0
\* and both threshold lists hold exactly five strictly increasing values,
\* and waves are never built with thresholds that are not strictly
\* increasing.
C32_ThresholdsIncreasing ==
    /\ (dpolChecked.returned /\ ~dpolChecked.raised) =>
          /\ dpol.wave_timeout_seconds > 0
          /\ Len(dpol.wave_radii_degrees) = 5
          /\ Len(dpol.wave_eta_seconds) = 5
          /\ StrictlyIncreasing(dpol.wave_radii_degrees)
          /\ StrictlyIncreasing(dpol.wave_eta_seconds)
    /\ (wvResult.returned /\ ~wvResult.raised) => StrictlyIncreasing(UsedThresholds)

\* what validate() does ensure: it accepts exactly the policies with a
\* positive timeout and five thresholds in each list, in whatever order
FiveThresholdsChecked ==
    dpolChecked.returned =>
        dpolChecked.raised = ~(/\ dpol.wave_timeout_seconds > 0
                               /\ Len(dpol.wave_radii_degrees) = 5
                               /\ Len(dpol.wave_eta_seconds) = 5)

-----------------------------------------------------------------------------
(* Properties of the feasibility search *)

\* every pickup of a sequence of stops comes before the dropoff of its order
PickupsFirst(seq) ==
    \A i \in DOMAIN seq : \A j \in DOMAIN seq :
        (/\ seq[i].order_id = seq[j].order_id
         /\ seq[i].stop_type = "PICKUP"
         /\ seq[j].stop_type = "DROPOFF") => i < j

\* the time of the legs of a sequence of stops, inf if a leg has no route
LegTime(seq) ==
    IF \E i \in 1..(Len(seq) - 1) : Duration(seq[i].coord, seq[i + 1].coord) >= Infinity
    THEN Infinity
    ELSE SumSeq([i \in 1..(Len(seq) - 1) |-> Duration(seq[i].coord, seq[i + 1].coord)])

\* the sequences the stops of the bundle can be visited in, pickups first
ValidSequences(bundle, cat) ==
    LET stops == BundleStops(bundle, cat)
    IN  {seq \in {[i \in DOMAIN stops |-> stops[p[i]]] :
                     p \in Range(PermutationsOfRange(Len(stops)))} : PickupsFirst(seq)}

SearchedRight(bundle, cat, result) ==
    IF Len(bundle) = 0 \/ Len(bundle) > 3
    THEN ~result.is_feasible /\ result.best_stops = <<>>
    ELSE LET valid == ValidSequences(bundle, cat)
         IN  IF \A seq \in valid : LegTime(seq) >= Infinity
             THEN ~result.is_feasible /\ result.best_stops = <<>>
             ELSE /\ result.is_feasible
                  /\ result.best_stops \in valid
                  /\ result.best_time_seconds = LegTime(result.best_stops)
                  /\ \A seq \in valid : result.best_time_seconds <= LegTime(seq)

\* C36: for a bundle of 1 to 3 orders the search returns a sequence of the
\* bundle's stops with every pickup before its dropoff, of the least total
\* leg time among such sequences, together with that time; an empty bundle,
\* one of more than 3 orders, or one no such sequence of which has a finite
\* time is reported infeasible with no stops, and batch_orders goes on past
\* it: it returns, no job it emits is an infeasible bundle, and every order
\* of the pool is in a job or deferred
C36_FeasibilitySearch ==
    /\ feasResult.returned => SearchedRight(feasBundle, catalog, feasResult.value)
    /\ batchResult.returned =>
           /\ ~batchResult.raised
           /\ \A i \in DOMAIN batchResult.value.jobs :
                  Len(batchResult.value.jobs[i].order_ids) >= 2 =>
                      \E seq \in ValidSequences(batchResult.value.jobs[i].order_ids, catalog) :
                          LegTime(seq) < Infinity
           /\ Range(batchPool) =
                  Range(EmittedIds) \cup Range(batchResult.value.unbatched_orders)

\* a pair whose fastest sequence is not the bundle's own order is searched,
\* a bundle with the unroutable order is reported infeasible, and
\* batch_orders pairs the two other orders
C36_Witness ==
    /\ catalog = CatalogOffroad
    /\ feasResult.returned
    /\ "o3" \in Range(feasBundle)
    /\ Len(feasBundle) \in {2, 3}
    /\ ~feasResult.value.is_feasible
    /\ batchResult.returned
    /\ \E i \in DOMAIN batchResult.value.jobs :
           batchResult.value.jobs[i].order_ids = <<"o1", "o2">>

\* a feasible bundle whose stops in bundle order take longer than the sequence found
SearchReorders ==
    /\ feasResult.returned
    /\ feasResult.value.is_feasible
    /\ feasResult.value.best_time_seconds < LegTime(BundleStops(feasBundle, catalog))

-----------------------------------------------------------------------------
(* Properties of the selection among candidates of equal score *)

\* the orders of the pool supplied in every sequence
Resupplied(pool) ==
    {[i \in DOMAIN pool |-> pool[p[i]]] :
        p \in IF Len(pool) = 0 THEN {<<>>}
              ELSE IF Len(pool) = 1 THEN {<<1>>}
              ELSE IF Len(pool) = 2 THEN Range(Perms2)
              ELSE {q \in [1..3 -> 1..3] : \A a, b \in 1..3 : a # b => q[a] # q[b]}}

\* batch_orders as BatchCall calls it, on the pool given
BatchOrdersOn(pool) ==
    IF batchNear THEN BatchOrdersNear(pool, policy, catalog, batchAges)
    ELSE BatchOrders(pool, policy, catalog, batchAges)

\* the bundles of the jobs emitted, as sets of order ids
Bundling(result) == {Range(result.jobs[i].order_ids) : i \in DOMAIN result.jobs}

\* C37: selection breaks ties by age and then by order id, so that
\* batch_orders emits the same jobs for the same orders, ages, durations and
\* policy whatever the sequence the orders are supplied in
C37_SelectionDeterministic ==
    (batchResult.returned /\ ~batchResult.raised) =>
        \A pool \in Resupplied(batchPool) :
            Bundling(BatchOrdersOn(pool)) = Bundling(batchResult.value)

\* what the sort by score alone does give: the same jobs for the same
\* orders in the same sequence, and for any sequence of at most two orders
SameSequenceSameJobs ==
    (batchResult.returned /\ ~batchResult.raised) =>
        /\ BatchOrdersOn(batchPool) = batchResult.value
        /\ Len(batchPool) <= 2 =>
               \A pool \in Resupplied(batchPool) :
                   Bundling(BatchOrdersOn(pool)) = Bundling(batchResult.value)

-----------------------------------------------------------------------------
(* Properties of the clusters *)

\* the orders of the pool that no cluster holds
Dropped(clusters) == Range(batchPool) \ UNION {Range(clusters[i]) : i \in DOMAIN clusters}

Capped(clusters) ==
    \A i \in DOMAIN clusters : Len(clusters[i]) <= policy.max_cluster_candidates

\* no order dropped from a group is older than one the group's cluster retains
OldestRetained(clusters) ==
    \A d \in Dropped(clusters) : \A i \in DOMAIN clusters :
        (\E o \in Range(clusters[i]) : ClusterKey(o, catalog) = ClusterKey(d, catalog)) =>
            \A o \in Range(clusters[i]) : catalog[o].created_at <= catalog[d].created_at

Disjoint(clusters) ==
    \A i \in DOMAIN clusters : \A j \in DOMAIN clusters :
        i # j => Range(clusters[i]) \cap Range(clusters[j]) = {}

\* C38: every cluster build_clusters returns holds at most
\* max_cluster_candidates orders, a truncated group retains its oldest orders
\* by creation time, and the clusters are pairwise disjoint, in every mode:
\* continuous chaining, grouping by pickup id or rounded coordinate, and
\* near-pickup merging
C38_ClustersCapped ==
    clusterResult.returned =>
        /\ Capped(clusterResult.value)
        /\ OldestRetained(clusterResult.value)
        /\ Disjoint(clusterResult.value)

\* what build_clusters does ensure: disjoint clusters in every mode, and the
\* cap with the oldest orders retained wherever chaining is off
GroupedClustersCapped ==
    clusterResult.returned =>
        /\ Disjoint(clusterResult.value)
        /\ OldestRetained(clusterResult.value)
        /\ ~policy.enable_continuous_chaining => Capped(clusterResult.value)

\* with chaining the pool is one cluster, whatever its size
ChainedPoolWhole ==
    (clusterResult.returned /\ policy.enable_continuous_chaining /\ batchPool # <<>>) =>
        clusterResult.value = <<batchPool>>

\* a group of three truncated to its two oldest orders, supplied newest first
TruncatedToOldest ==
    /\ clusterResult.returned
    /\ ~policy.enable_continuous_chaining
    /\ Len(batchPool) = 3
    /\ batchPool[1] = "o3"
    /\ Dropped(clusterResult.value) # {}
    /\ \E i \in DOMAIN clusterResult.value : Len(clusterResult.value[i]) = 2

-----------------------------------------------------------------------------
(* Properties of an order's status against the bin that holds it *)

BinAgrees(o) ==
    /\ (CountIn(raw_ids, o) > 0) <=> (orders[o] = "RAW")
    /\ (CountIn(batching_ids, o) > 0) <=> (orders[o] = "BATCHING")

ReadyInOneJob(o) == orders[o] = "READY" => committed[o] = 1

\* C39: after any sequence of queue operations and order transitions,
\* the shatter back to RAW and the cancel among them, an order's id is in
\* the RAW bin exactly if its status is RAW and in the BATCHING bin exactly
\* if its status is BATCHING, and an order of status READY is in exactly one
\* committed job
C39_StatusAgreesWithBin == \A o \in OrderIds : BinAgrees(o) /\ ReadyInOneJob(o)

\* the queue's five operations alone keep every status with its bin
BinsAgree == \A o \in OrderIds : BinAgrees(o)

\* what the operations do keep: status and bin agree for every order that
\* the runtime has not shattered back to RAW or assigned
UntouchedOrdersAgree ==
    \A o \in OrderIds :
        (orders[o] = "RAW" => CountIn(raw_ids, o) + committed[o] > 0)
        /\ (CountIn(raw_ids, o) > 0 => orders[o] = "RAW")
        /\ (CountIn(batching_ids, o) > 0 <=> orders[o] = "BATCHING")

-----------------------------------------------------------------------------
(* Properties of the assignment of a job's orders *)

AllReady(order_ids) == \A o \in Range(order_ids) : orders[o] = "READY"

\* C40: transition_orders_to_assigned sets every order of the list to
\* ASSIGNED when all of them are READY; if any of them is not READY the
\* call fails and no order of the list has its status changed
C40_AssignAllOrNothing ==
    [][\A b \in PoppedBundles :
          TransitionOrdersToAssigned(b) =>
              IF AllReady(b)
              THEN ~lastOp'.raised /\ \A o \in Range(b) : orders'[o] = "ASSIGNED"
              ELSE lastOp'.raised /\ orders' = orders]_vars

\* what the call does ensure: it fails exactly if an order of the list is
\* not READY, and then the orders ahead of the first such order are ASSIGNED
\* and the others as they were
AssignedUpToFailure ==
    [][\A b \in PoppedBundles :
          TransitionOrdersToAssigned(b) =>
              /\ lastOp'.raised = ~AllReady(b)
              /\ \A i \in DOMAIN b :
                     orders'[b[i]] =
                         IF \A j \in 1..i : orders[b[j]] = "READY" THEN "ASSIGNED"
                         ELSE orders[b[i]]]_vars

\* a failed assignment that left the first order of the job ASSIGNED
AssignedBesideUnassigned ==
    /\ lastOp.op = "assign"
    /\ lastOp.raised
    /\ \E o \in OrderIds : orders[o] = "ASSIGNED"

====
